---------------------------- MODULE Spec2Model ----------------------------
(***************************************************************************)
(* A model of the voice-driven cooking assistant (backend/new.py, the      *)
(* OpenAI orchestrator, and backend/recipe_generator.py, the Gemini        *)
(* orchestrator): the stage sequence of main(), the line-prefix parsers,   *)
(* the command interpreter and the step-navigation loop.                   *)
(*                                                                         *)
(* A text is a sequence of one-character strings, so that upper(),         *)
(* strip(), split() and the substring tests are computed, not assumed.     *)
(***************************************************************************)
EXTENDS Integers, Sequences, FiniteSets, TLC

(***************************************************************************)
(* Bounds of the model.                                                    *)
(***************************************************************************)
\* How many REPEAT commands one session may receive (the step loop has no
\* bound of its own on them).
MaxRepeats == 2
\* How many fragments a command reply under test is made of.
MaxWords == 2
\* How many lines a stage-1 reply or a steps reply under test has.
MaxLines == 3
\* get_nearby_restaurants_from_google: the pages the Places API hands out for
\* one search, and the largest max_results asked for.
MaxPages == 3
MaxResults == 3

(***************************************************************************)
(* Python str operations, on sequences of characters.                      *)
(***************************************************************************)
EmptyText == << >>

LowerLetters ==
  <<"a", "b", "c", "d", "e", "f", "g", "h", "i", "j", "k", "l", "m",
    "n", "o", "p", "q", "r", "s", "t", "u", "v", "w", "x", "y", "z">>

UpperLetters ==
  <<"A", "B", "C", "D", "E", "F", "G", "H", "I", "J", "K", "L", "M",
    "N", "O", "P", "Q", "R", "S", "T", "U", "V", "W", "X", "Y", "Z">>

Whitespace == {" ", "\t", "\n", "\r"}

UpperChar(c) ==
  IF \E i \in 1..26 : LowerLetters[i] = c
    THEN UpperLetters[CHOOSE i \in 1..26 : LowerLetters[i] = c]
    ELSE c

LowerChar(c) ==
  IF \E i \in 1..26 : UpperLetters[i] = c
    THEN LowerLetters[CHOOSE i \in 1..26 : UpperLetters[i] = c]
    ELSE c

\* str.upper()
upper(s) == [i \in 1..Len(s) |-> UpperChar(s[i])]

\* A plausible slip: the text is not lowercased.
lower_noop(s) == s

\* str.lower()
lower(s) == [i \in 1..Len(s) |-> LowerChar(s[i])]

RECURSIVE lstrip(_)
lstrip(s) ==
  IF s # << >> /\ Head(s) \in Whitespace THEN lstrip(Tail(s)) ELSE s

RECURSIVE rstrip(_)
rstrip(s) ==
  IF s # << >> /\ s[Len(s)] \in Whitespace
    THEN rstrip(SubSeq(s, 1, Len(s) - 1))
    ELSE s

\* str.strip()
strip(s) == rstrip(lstrip(s))

\* str.startswith(prefix)
startswith(s, prefix) ==
  /\ Len(prefix) <= Len(s)
  /\ SubSeq(s, 1, Len(prefix)) = prefix

\* str.find(sub, start): the first index >= i where sub occurs, 0 if none
\* (indices are 1-based here).
RECURSIVE find_from(_, _, _)
find_from(s, sub, i) ==
  IF i + Len(sub) - 1 > Len(s) THEN 0
  ELSE IF SubSeq(s, i, i + Len(sub) - 1) = sub THEN i
  ELSE find_from(s, sub, i + 1)

\* sub in s
contains(s, sub) == find_from(s, sub, 1) # 0

\* s.split(sep): the pieces between the occurrences of the separator.
RECURSIVE split(_, _)
split(s, sep) ==
  LET i == find_from(s, sep, 1) IN
    IF i = 0 THEN <<s>>
    ELSE <<SubSeq(s, 1, i - 1)>> \o split(SubSeq(s, i + Len(sep), Len(s)), sep)

\* s.split(sep, 1): at most one cut, at the first separator.
split1(s, sep) ==
  LET i == find_from(s, sep, 1) IN
    IF i = 0 THEN <<s>>
    ELSE <<SubSeq(s, 1, i - 1), SubSeq(s, i + Len(sep), Len(s))>>

\* str(n) for a natural number.
Digits == <<"0", "1", "2", "3", "4", "5", "6", "7", "8", "9">>

RECURSIVE str(_)
str(n) ==
  IF n < 10 THEN <<Digits[n + 1]>>
  ELSE str(n \div 10) \o <<Digits[(n % 10) + 1]>>

\* Concatenation of a sequence of texts.
RECURSIVE concat(_)
concat(ts) == IF ts = << >> THEN << >> ELSE Head(ts) \o concat(Tail(ts))

(***************************************************************************)
(* The command interpreter: the tail of get_user_step_command.             *)
(***************************************************************************)
KW_REPEAT == <<"R", "E", "P", "E", "A", "T">>
KW_STOP == <<"S", "T", "O", "P">>

\* A plausible slip: STOP is tested before REPEAT.
resolve_command_stop_first(command_raw) ==
  IF contains(command_raw, KW_STOP) THEN "STOP"
  ELSE IF contains(command_raw, KW_REPEAT) THEN "REPEAT"
  ELSE "NEXT"

\* if "REPEAT" in command_raw ... if "STOP" in command_raw ... return "NEXT"
resolve_command(command_raw) ==
  IF contains(command_raw, KW_REPEAT) THEN "REPEAT"
  ELSE IF contains(command_raw, KW_STOP) THEN "STOP"
  ELSE "NEXT"

\* command_raw = chat(prompt_cmd).upper()   [chat() strips the reply]
\* command_raw = result_cmd.text.strip().upper()
normalize_command(reply) == upper(strip(reply))

(***************************************************************************)
(* The structured-response parsers.                                        *)
(***************************************************************************)
COLON == <<":">>
HYPHEN == <<"-">>
NEWLINE == <<"\n">>
\* A plausible slip: the test is for the word, without its colon.
P_LANG_no_colon == <<"L", "A", "N", "G">>

P_LANG == <<"L", "A", "N", "G", ":">>
P_OPTIONS == <<"O", "P", "T", "I", "O", "N", "S", ":">>
P_DISH == <<"D", "I", "S", "H", ":">>
P_INGREDIENTS == <<"I", "N", "G", "R", "E", "D", "I", "E", "N", "T", "S", ":">>
P_QUESTION == <<"Q", "U", "E", "S", "T", "I", "O", "N", ":">>
P_RECIPE == <<"R", "E", "C", "I", "P", "E", ":">>
P_IMG == <<"I", "M", "G", ":">>
P_STEP == <<"s", "t", "e", "p">>
DEFAULT_LANG == <<"e", "n">>
\* A plausible slip: the image prompt defaults to "" like the other fields.
DEFAULT_IMAGE_PROMPT_empty == << >>

DEFAULT_IMAGE_PROMPT == <<"I", "n", "d", "i", "a", "n", " ", "f", "o", "o", "d">>

\* A plausible slip: split(":") without the limit of one cut.
after_colon_split_all(line) == strip(split(line, COLON)[2])

\* line.split(":", 1)[1].strip()
after_colon(line) == strip(split1(line, COLON)[2])

\* The loop of parse_lang_and_options over the lines still to read.
RECURSIVE scan_lang_and_options(_, _, _)
scan_lang_and_options(lines, lang_code_, ai_question_) ==
  IF lines = << >>
    THEN [lang_code |-> lang_code_, ai_question |-> ai_question_]
    ELSE LET line == Head(lines)
             l2 == IF contains(line, P_LANG)
                     THEN lower(after_colon(line)) ELSE lang_code_
             q2 == IF contains(line, P_OPTIONS)
                     THEN after_colon(line) ELSE ai_question_
         IN scan_lang_and_options(Tail(lines), l2, q2)

\* A plausible slip: the question defaults to "" instead of the raw text.
parse_lang_and_options_empty_question(response) ==
  scan_lang_and_options(split(response, NEWLINE), DEFAULT_LANG, EmptyText)

parse_lang_and_options(response) ==
  scan_lang_and_options(split(response, NEWLINE), DEFAULT_LANG, response)

\* The loop of parse_dish_block: an if/elif chain on the stripped line.
RECURSIVE scan_dish_block(_, _)
scan_dish_block(lines, acc) ==
  IF lines = << >> THEN acc
  ELSE LET line == strip(Head(lines))
           acc2 ==
             IF startswith(line, P_DISH)
               THEN [acc EXCEPT !.dish_name = after_colon(line)]
             ELSE IF startswith(line, P_INGREDIENTS)
               THEN [acc EXCEPT !.ingredients_text = after_colon(line)]
             ELSE IF startswith(line, P_QUESTION)
               THEN [acc EXCEPT !.question_text = after_colon(line)]
             ELSE IF startswith(line, P_RECIPE)
               THEN [acc EXCEPT !.base_recipe_text = after_colon(line)]
             ELSE IF startswith(line, P_IMG)
               THEN [acc EXCEPT !.image_prompt = after_colon(line)]
             ELSE acc
       IN scan_dish_block(Tail(lines), acc2)

parse_dish_block(final_text) ==
  scan_dish_block(split(final_text, NEWLINE),
                  [dish_name |-> EmptyText, ingredients_text |-> EmptyText,
                   question_text |-> EmptyText, base_recipe_text |-> EmptyText,
                   image_prompt |-> DEFAULT_IMAGE_PROMPT])

\* A plausible slip: a step line without a delimiter is kept whole.
RECURSIVE scan_steps_keeps_bare(_, _)
scan_steps_keeps_bare(lines, acc) ==
  IF lines = << >> THEN acc
  ELSE LET line == strip(Head(lines))
           byColon == split1(line, COLON)
           byHyphen == split1(line, HYPHEN)
           acc2 ==
             IF line = << >> THEN acc
             ELSE IF ~startswith(lower(line), P_STEP) THEN acc
             ELSE IF Len(byColon) = 2 THEN Append(acc, strip(byColon[2]))
             ELSE IF Len(byHyphen) = 2 THEN Append(acc, strip(byHyphen[2]))
             ELSE Append(acc, line)
       IN scan_steps_keeps_bare(Tail(lines), acc2)

\* A plausible slip: the hyphen is tried before the colon.
RECURSIVE scan_steps_hyphen_first(_, _)
scan_steps_hyphen_first(lines, acc) ==
  IF lines = << >> THEN acc
  ELSE LET line == strip(Head(lines))
           byColon == split1(line, COLON)
           byHyphen == split1(line, HYPHEN)
           acc2 ==
             IF line = << >> THEN acc
             ELSE IF ~startswith(lower(line), P_STEP) THEN acc
             ELSE IF Len(byHyphen) = 2 THEN Append(acc, strip(byHyphen[2]))
             ELSE IF Len(byColon) = 2 THEN Append(acc, strip(byColon[2]))
             ELSE acc
       IN scan_steps_hyphen_first(Tail(lines), acc2)

\* The loop of parse_steps.
RECURSIVE scan_steps(_, _)
scan_steps(lines, acc) ==
  IF lines = << >> THEN acc
  ELSE LET line == strip(Head(lines))
           byColon == split1(line, COLON)
           byHyphen == split1(line, HYPHEN)
           acc2 ==
             IF line = << >> THEN acc
             ELSE IF ~startswith(lower(line), P_STEP) THEN acc
             ELSE IF Len(byColon) = 2 THEN Append(acc, strip(byColon[2]))
             ELSE IF Len(byHyphen) = 2 THEN Append(acc, strip(byHyphen[2]))
             ELSE acc
       IN scan_steps(Tail(lines), acc2)

parse_steps(steps_text) == scan_steps(split(steps_text, NEWLINE), << >>)

(***************************************************************************)
(* Where a parser can raise: the subscript [1] of line.split(":", 1) is an *)
(* IndexError when the line has no colon.  parse_steps tests len(parts)    *)
(* before it subscripts, so it has no such place.                          *)
(***************************************************************************)
after_colon_raises(line) == Len(split1(line, COLON)) < 2

parse_lang_and_options_raises(response) ==
  LET lines == split(response, NEWLINE) IN
    \E k \in DOMAIN lines :
      \/ contains(lines[k], P_LANG) /\ after_colon_raises(lines[k])
      \/ contains(lines[k], P_OPTIONS) /\ after_colon_raises(lines[k])

DishPrefixes == {P_DISH, P_INGREDIENTS, P_QUESTION, P_RECIPE, P_IMG}

parse_dish_block_raises(final_text) ==
  LET lines == split(final_text, NEWLINE) IN
    \E k \in DOMAIN lines :
      /\ \E p \in DishPrefixes : startswith(strip(lines[k]), p)
      /\ after_colon_raises(strip(lines[k]))

(***************************************************************************)
(* The state of one run of main().                                         *)
(***************************************************************************)
VARIABLES
  impl,               \* "openai" (new.py) or "gemini" (recipe_generator.py)
  pc,                 \* the statement of main() to run next
  outcome,            \* how the run ended, "RUNNING" until it has
  request,            \* the prompt built last, with what it interpolates
  response_text,      \* the text of the last completion waiting to be parsed
  last_call,          \* the collaborator called last, and how the call ended
  lang_code, ai_question,
  dish_name, ingredients_text, question_text, base_recipe_text, image_prompt,
  final_recipe_text,
  steps, step_index, command,
  trace,              \* the external calls and final notices so far, in order
  repeats,            \* REPEAT commands received so far
  reply, resolved,    \* a function taken alone: its input, and how it ended
  unit                \* what runs: "main", or the function taken alone

stageVars == <<lang_code, ai_question>>
dishVars ==
  <<dish_name, ingredients_text, question_text, base_recipe_text, image_prompt>>
loopVars == <<steps, step_index, command, repeats>>
unitVars == <<reply, resolved, unit>>

(***************************************************************************)
(* The state of one call of get_nearby_restaurants_from_google and of its  *)
(* caller get_restaurant_recommendations.                                  *)
(***************************************************************************)
VARIABLES
  max_results,        \* the parameter
  restaurants,        \* the local list
  pagetoken,          \* params["pagetoken"], when set
  pages,              \* the requests made so far: token sent, page received
  places_pc,          \* "idle", "while", "returned" or "raised"
  places,             \* what the call returned
  recommendation      \* what the caller made of it

placesVars ==
  <<max_results, restaurants, pagetoken, pages, places_pc, places,
    recommendation>>
vars ==
  <<impl, pc, outcome, request, response_text, last_call, stageVars, dishVars,
    final_recipe_text, loopVars, trace, unitVars, placesVars>>

(***************************************************************************)
(* What the collaborators may answer.                                      *)
(***************************************************************************)
\* What transcribe_audio may return: a transcript, or "" when it failed.
HeardTexts == {EmptyText, <<"r", "i", "c", "e">>}

Stage1Replies ==
  { <<"L", "A", "N", "G", ":", " ", "H", "I", "\n",
      "O", "P", "T", "I", "O", "N", "S", ":", " ", "A", "?">>,
    <<"D", "a", "l", "?">>,
    <<"L", "A", "N", "G", ":", "\n",
      "O", "P", "T", "I", "O", "N", "S", ":", " ", "A", "?">>,
    <<" ">> }

Stage2Replies ==
  { <<"D", "I", "S", "H", ":", " ", "D", "a", "l", "\n",
      "I", "N", "G", "R", "E", "D", "I", "E", "N", "T", "S", ":", " ",
      "a", ",", " ", "b", "\n",
      "Q", "U", "E", "S", "T", "I", "O", "N", ":", " ", "o", "k", "?", "\n",
      "R", "E", "C", "I", "P", "E", ":", " ", "m", "i", "x", "\n",
      "I", "M", "G", ":", " ", "d", "a", "l">>,
    <<"D", "I", "S", "H", ":", " ", "D", "a", "l">>,
    EmptyText }

Stage3Replies == { <<"M", "i", "x", ".">>, EmptyText }

StepsReplies ==
  { <<"S", "T", "E", "P", " ", "1", ":", " ", "a", "\n",
      "S", "T", "E", "P", " ", "2", " ", "-", " ", "b", "\n",
      "s", "t", "e", "p", " ", "3", ":", " ", "c">>,
    <<"S", "T", "E", "P", " ", "1", ":", " ", "a", "\n",
      "S", "T", "E", "P", " ", "2">>,
    <<"a", ",", " ", "b">> }

IntroReplies == { <<"G", "o">>, EmptyText }

CommandReplies ==
  { <<"N", "E", "X", "T">>,
    <<"r", "e", "p", "e", "a", "t">>,
    <<"S", "t", "o", "p", ".">>,
    <<"R", "E", "P", "E", "A", "T", " ", "S", "T", "O", "P">>,
    EmptyText }

(***************************************************************************)
(* Prompts: the template and the values its f-string interpolates.  A slot *)
(* is the set of the values put there: empty when the template has no such *)
(* slot.  audio says that an uploaded recording goes with the prompt.      *)
(***************************************************************************)
NoPrompt ==
  [template |-> "none", lang |-> {}, heard |-> {}, question |-> {},
   dish |-> {}, ingredients |-> {}, recipe |-> {}, final |-> {},
   audio |-> FALSE]

\* An entry of the trace.
Ev(kind, what, lang, text, idx) ==
  [kind |-> kind, what |-> what, lang |-> lang, text |-> text, idx |-> idx]

Captured(what) == Ev("capture", what, {}, {}, 0)
Sent(p) == Ev("complete", p.template, p.lang, {}, 0)
Got(p, o) == Ev("complete", p.template, p.lang, o.raw, 0)
Parsed(what) == Ev("parse", what, {}, {}, 0)
Spoke(what, text, lang, idx) == Ev("speak", what, {lang}, {text}, idx)
Printed(what) == Ev("print", what, {}, {}, 0)

(***************************************************************************)
(* The collaborators.                                                      *)
(***************************************************************************)
\* A plausible slip: recipe_generator.py takes result.text without .strip().
completion_gemini_unstripped(replies) ==
  IF impl = "openai"
    THEN {[status |-> "ok", text |-> strip(r), raw |-> {r}] : r \in replies}
         \cup {[status |-> "error", text |-> EmptyText, raw |-> {EmptyText}]}
    ELSE {[status |-> "ok", text |-> r, raw |-> {r}] : r \in replies}
         \cup {[status |-> "quota", text |-> EmptyText, raw |-> {}],
               [status |-> "raise", text |-> EmptyText, raw |-> {}]}

\* chat(prompt) of new.py: the stripped reply, or "" when the call raised.
\* model.generate_content(...).text.strip() of recipe_generator.py: the
\* stripped reply, or an exception (ResourceExhausted, or any other).
\* raw is the reply before stripping; chat() turns a failed call into the
\* reply "", and main() of new.py cannot tell the two apart.
completion(replies) ==
  IF impl = "openai"
    THEN {[status |-> "ok", text |-> strip(r), raw |-> {r}] : r \in replies}
         \cup {[status |-> "error", text |-> EmptyText, raw |-> {EmptyText}]}
    ELSE {[status |-> "ok", text |-> strip(r), raw |-> {r}] : r \in replies}
         \cup {[status |-> "quota", text |-> EmptyText, raw |-> {}],
               [status |-> "raise", text |-> EmptyText, raw |-> {}]}

\* speak(text, lang_code): nothing for an empty text; else the synthesis
\* (outside the try) may raise, and a playback error is caught and printed.
speak(text) ==
  IF text = EmptyText THEN {"skipped"}
  ELSE {"played", "playback_error", "raise"}

\* A plausible slip: a failure inside generate_image is not caught.
generate_image_uncaught == {"saved", "raise"}

\* generate_image(prompt): every failure is caught inside.
generate_image == {"saved", "failed"}

\* A plausible slip: transcribe_audio lets a failed transcription raise
\* instead of returning "".
listen_failure_raises ==
  IF impl = "openai"
    THEN {[status |-> "ok", heard |-> {h}, audio |-> FALSE] :
            h \in HeardTexts \ {EmptyText}}
         \cup {[status |-> "raise", heard |-> {}, audio |-> FALSE]}
    ELSE {[status |-> "ok", heard |-> {}, audio |-> TRUE],
          [status |-> "raise", heard |-> {}, audio |-> FALSE]}

\* What the audio of one capture becomes: for new.py the transcript that
\* transcribe_audio returns, for recipe_generator.py the upload, which may raise.
listen ==
  IF impl = "openai"
    THEN {[status |-> "ok", heard |-> {h}, audio |-> FALSE] : h \in HeardTexts}
    ELSE {[status |-> "ok", heard |-> {}, audio |-> TRUE],
          [status |-> "raise", heard |-> {}, audio |-> FALSE]}

goto(p) == pc' = p /\ outcome' = outcome
exit(o) == pc' = "exit" /\ outcome' = o

(***************************************************************************)
(* The statements of main() in program order: the statement that follows   *)
(* each one when it completes normally.  The loop test and the dispatch on *)
(* the command choose their successor themselves.                          *)
(***************************************************************************)
MainOrder ==
  <<"capture_ingredients", "complete_1", "parse_1", "speak_question",
    "capture_choice", "complete_2", "parse_2", "generate_image",
    "speak_availability", "capture_availability", "complete_3",
    "speak_final_recipe", "complete_4", "parse_steps", "complete_intro",
    "speak_intro", "loop_test", "announce", "get_command", "dispatch">>

\* A plausible slip: the image is generated after the availability prompt
\* is spoken instead of before it.
MainOrderImageLate ==
  <<"capture_ingredients", "complete_1", "parse_1", "speak_question",
    "capture_choice", "complete_2", "parse_2", "speak_availability",
    "generate_image", "capture_availability", "complete_3",
    "speak_final_recipe", "complete_4", "parse_steps", "complete_intro",
    "speak_intro", "loop_test", "announce", "get_command", "dispatch">>

successor_in(order, p) ==
  order[(CHOOSE k \in 1..(Len(order) - 1) : order[k] = p) + 1]

next_stmt_image_late(p) == successor_in(MainOrderImageLate, p)

next_stmt(p) == successor_in(MainOrder, p)


\* prompt_1: new.py interpolates the transcript; recipe_generator.py sends
\* the uploaded recording with a fixed text.
prompt_1(l) ==
  [NoPrompt EXCEPT !.template = "prompt_1", !.heard = l.heard,
                   !.audio = l.audio]

\* prompt_2: new.py interpolates lang_code, ai_question and the transcript;
\* recipe_generator.py interpolates lang_code only.
prompt_2(l) ==
  IF impl = "openai"
    THEN [NoPrompt EXCEPT !.template = "prompt_2", !.lang = {lang_code},
                          !.question = {ai_question}, !.heard = l.heard,
                          !.audio = l.audio]
    ELSE [NoPrompt EXCEPT !.template = "prompt_2", !.lang = {lang_code},
                          !.audio = l.audio]

prompt_3(l) ==
  [NoPrompt EXCEPT !.template = "prompt_3", !.lang = {lang_code},
                   !.dish = {dish_name}, !.ingredients = {ingredients_text},
                   !.recipe = {base_recipe_text}, !.heard = l.heard,
                   !.audio = l.audio]

prompt_steps ==
  [NoPrompt EXCEPT !.template = "prompt_steps", !.lang = {lang_code},
                   !.final = {final_recipe_text}]

\* A plausible slip: the instruction is asked for in the default language.
intro_prompt_default_lang ==
  [NoPrompt EXCEPT !.template = "intro_prompt", !.lang = {DEFAULT_LANG}]

intro_prompt ==
  [NoPrompt EXCEPT !.template = "intro_prompt", !.lang = {lang_code}]

prompt_cmd(l) ==
  [NoPrompt EXCEPT !.template = "prompt_cmd", !.lang = {lang_code},
                   !.heard = l.heard, !.audio = l.audio]

(***************************************************************************)
(* The shared shape of a step of main().                                   *)
(***************************************************************************)
Answered(o) == o.status \in {"ok", "error"}

\* The end of a completion call on prompt p: on an answer main() goes on; a
\* ResourceExhausted is caught (stage 1 of recipe_generator.py only) and
\* main() returns; any other exception ends the run.
Completed(p, o, next, quotaCaught) ==
  /\ last_call' = [call |-> "chat", status |-> o.status]
  /\ IF Answered(o)
       THEN goto(next) /\ trace' = Append(trace, Got(p, o))
     ELSE IF o.status = "quota" /\ quotaCaught
       THEN /\ exit("QUOTA")
            /\ trace' = trace \o <<Sent(p), Printed("quota_exhausted")>>
     ELSE /\ exit("CRASHED")
          /\ trace' = trace \o <<Sent(p), Printed("traceback")>>

\* asyncio.run(speak(text, lang_code))
Speaking(what, text, idx, next) ==
  \E r \in speak(text) :
    /\ last_call' = [call |-> "speak", status |-> r]
    /\ IF r = "raise"
         THEN /\ exit("CRASHED")
              /\ trace' = trace \o <<Spoke(what, text, lang_code, idx),
                                     Printed("traceback")>>
         ELSE /\ goto(next)
              /\ trace' = Append(trace, Spoke(what, text, lang_code, idx))

\* input(...); record_audio(...); then the transcript or the upload, and
\* the prompt built from it.
Capturing(what, next, l, p) ==
  IF l.status = "ok"
    THEN /\ request' = p
         /\ goto(next)
         /\ trace' = Append(trace, Captured(what))
    ELSE /\ request' = request
         /\ exit("CRASHED")
         /\ trace' = trace \o <<Captured(what), Printed("traceback")>>

(***************************************************************************)
(* main(): stage 1.                                                        *)
(***************************************************************************)
CaptureIngredients ==
  /\ pc = "capture_ingredients"
  /\ \E l \in listen : Capturing("ingredients", next_stmt(pc), l, prompt_1(l))
  /\ UNCHANGED <<impl, response_text, last_call, stageVars, dishVars,
                 final_recipe_text, loopVars, unitVars, placesVars>>

CompleteStage1 ==
  /\ pc = "complete_1"
  /\ \E o \in completion(Stage1Replies) :
       /\ Completed(request, o, next_stmt(pc), TRUE)
       /\ response_text' = IF Answered(o) THEN o.text ELSE response_text
  /\ UNCHANGED <<impl, request, stageVars,
                 dishVars, final_recipe_text, loopVars, unitVars, placesVars>>

ParseLangAndOptions ==
  /\ pc = "parse_1"
  /\ LET r == parse_lang_and_options(response_text) IN
       /\ lang_code' = r.lang_code
       /\ ai_question' = r.ai_question
  /\ goto(next_stmt(pc))
  /\ trace' = Append(trace, Parsed("lang_and_options"))
  /\ UNCHANGED <<impl, request, response_text, last_call, dishVars,
                 final_recipe_text, loopVars, unitVars, placesVars>>

SpeakQuestion ==
  /\ pc = "speak_question"
  /\ Speaking("question", ai_question, 0, next_stmt(pc))
  /\ UNCHANGED <<impl, request, response_text, stageVars, dishVars, final_recipe_text, loopVars, unitVars, placesVars>>

(***************************************************************************)
(* main(): stage 2.                                                        *)
(***************************************************************************)
CaptureChoice ==
  /\ pc = "capture_choice"
  /\ \E l \in listen : Capturing("choice", next_stmt(pc), l, prompt_2(l))
  /\ UNCHANGED <<impl, response_text, last_call, stageVars, dishVars,
                 final_recipe_text, loopVars, unitVars, placesVars>>

CompleteStage2 ==
  /\ pc = "complete_2"
  /\ \E o \in completion(Stage2Replies) :
       /\ Completed(request, o, next_stmt(pc), FALSE)
       /\ response_text' = IF Answered(o) THEN o.text ELSE response_text
  /\ UNCHANGED <<impl, request, stageVars,
                 dishVars, final_recipe_text, loopVars, unitVars, placesVars>>

ParseDishBlock ==
  /\ pc = "parse_2"
  /\ LET r == parse_dish_block(response_text) IN
       /\ dish_name' = r.dish_name
       /\ ingredients_text' = r.ingredients_text
       /\ question_text' = r.question_text
       /\ base_recipe_text' = r.base_recipe_text
       /\ image_prompt' = r.image_prompt
  /\ goto(next_stmt(pc))
  /\ trace' = Append(trace, Parsed("dish_block"))
  /\ UNCHANGED <<impl, request, response_text, last_call, stageVars,
                 final_recipe_text, loopVars, unitVars, placesVars>>

\* f"delicious {image_prompt}, professional food photography, 4k"
image_request(img) ==
  <<"d", "e", "l", "i", "c", "i", "o", "u", "s", " ">> \o img \o
  <<",", " ", "p", "r", "o", "f", "e", "s", "s", "i", "o", "n", "a", "l", " ",
    "f", "o", "o", "d", " ", "p", "h", "o", "t", "o", "g", "r", "a", "p", "h",
    "y", ",", " ", "4", "k">>

GenerateImage ==
  /\ pc = "generate_image"
  /\ \E r \in generate_image :
       LET e == Ev("image", "generate", {}, {image_request(image_prompt)}, 0) IN
         /\ last_call' = [call |-> "generate_image", status |-> r]
         /\ IF r = "raise"
              THEN exit("CRASHED") /\ trace' = trace \o <<e, Printed("traceback")>>
              ELSE goto(next_stmt(pc)) /\ trace' = Append(trace, e)
  /\ UNCHANGED <<impl, request, response_text, stageVars, dishVars, final_recipe_text, loopVars, unitVars, placesVars>>

\* f"{dish_name}. {ingredients_text}. {question_text}"
ingredients_prompt_for_user ==
  dish_name \o <<".", " ">> \o ingredients_text \o <<".", " ">> \o question_text

SpeakAvailability ==
  /\ pc = "speak_availability"
  /\ Speaking("availability", ingredients_prompt_for_user, 0, next_stmt(pc))
  /\ UNCHANGED <<impl, request, response_text, stageVars, dishVars, final_recipe_text, loopVars, unitVars, placesVars>>

(***************************************************************************)
(* main(): stages 3 and 4.                                                 *)
(***************************************************************************)
CaptureAvailability ==
  /\ pc = "capture_availability"
  /\ \E l \in listen : Capturing("availability", next_stmt(pc), l, prompt_3(l))
  /\ UNCHANGED <<impl, response_text, last_call, stageVars, dishVars,
                 final_recipe_text, loopVars, unitVars, placesVars>>

CompleteStage3 ==
  /\ pc = "complete_3"
  /\ \E o \in completion(Stage3Replies) :
       /\ Completed(request, o, next_stmt(pc), FALSE)
       /\ final_recipe_text' = IF Answered(o) THEN o.text ELSE final_recipe_text
  /\ UNCHANGED <<impl, request, response_text, stageVars, dishVars, loopVars, unitVars, placesVars>>

SpeakFinalRecipe ==
  /\ pc = "speak_final_recipe"
  /\ Speaking("final_recipe", final_recipe_text, 0, next_stmt(pc))
  /\ UNCHANGED <<impl, request, response_text, stageVars, dishVars, final_recipe_text, loopVars, unitVars, placesVars>>

CompleteStage4 ==
  /\ pc = "complete_4"
  /\ request' = prompt_steps
  /\ \E o \in completion(StepsReplies) :
       /\ Completed(prompt_steps, o, next_stmt(pc), FALSE)
       /\ response_text' = IF Answered(o) THEN o.text ELSE response_text
  /\ UNCHANGED <<impl, stageVars, dishVars,
                 final_recipe_text, loopVars, unitVars, placesVars>>

\* A plausible slip: the empty list is not detected.
no_steps_unchecked(st) == FALSE

\* if not steps
no_steps(st) == st = << >>

\* steps = parse_steps(steps_text); if not steps: print(...); return
ParseSteps ==
  /\ pc = "parse_steps"
  /\ steps' = parse_steps(response_text)
  /\ IF no_steps(steps')
       THEN /\ exit("NO_STEPS")
            /\ trace' = trace \o <<Parsed("steps"),
                                   Printed("could_not_parse_steps")>>
       ELSE /\ goto(next_stmt(pc))
            /\ trace' = Append(trace, Parsed("steps"))
  /\ UNCHANGED <<impl, request, response_text, last_call, stageVars, dishVars,
                 final_recipe_text, step_index, command, repeats, unitVars, placesVars>>

(***************************************************************************)
(* main(): the protocol instruction and the step loop.                     *)
(***************************************************************************)
CompleteIntro ==
  /\ pc = "complete_intro"
  /\ request' = intro_prompt
  /\ \E o \in completion(IntroReplies) :
       /\ Completed(intro_prompt, o, next_stmt(pc), FALSE)
       /\ response_text' = IF Answered(o) THEN o.text ELSE response_text
  /\ UNCHANGED <<impl, stageVars, dishVars,
                 final_recipe_text, loopVars, unitVars, placesVars>>

\* asyncio.run(speak(intro_text, lang_code)); step_index = 0
SpeakIntro ==
  /\ pc = "speak_intro"
  /\ Speaking("intro", response_text, 0, next_stmt(pc))
  /\ step_index' = 0
  /\ UNCHANGED <<impl, request, response_text, stageVars, dishVars, final_recipe_text, steps, command,
                 repeats, unitVars, placesVars>>

\* A plausible slip: the loop runs one index too far.
while_condition_off_by_one(i, st) == i <= Len(st)

\* A plausible slip: the loop ends one step early.
while_condition_stops_early(i, st) == i + 1 < Len(st)

\* while step_index < len(steps)
while_condition(i, st) == i < Len(st)

LoopTest ==
  /\ pc = "loop_test"
  /\ IF while_condition(step_index, steps)
       THEN goto("announce") /\ trace' = trace
       ELSE exit("FINISHED") /\ trace' = Append(trace, Printed("finished"))
  /\ UNCHANGED <<impl, request, response_text, last_call, stageVars, dishVars,
                 final_recipe_text, loopVars, unitVars, placesVars>>

\* list indexing: 0 <= i < len reads forward, -len <= i < 0 reads from the
\* end, anything else raises IndexError.
InRange(i, st) == -Len(st) <= i /\ i < Len(st)
item(st, i) == IF i >= 0 THEN st[i + 1] ELSE st[Len(st) + i + 1]

\* A plausible slip: the spoken number is the 0-based index.
step_announcement_zero_based(i, current_step) ==
  <<"S", "t", "e", "p", " ">> \o str(i) \o <<":", " ">> \o current_step

\* f"Step {step_index + 1}: {current_step}"
step_announcement(i, current_step) ==
  <<"S", "t", "e", "p", " ">> \o
  (IF i + 1 < 0 THEN <<"-">> \o str(-(i + 1)) ELSE str(i + 1)) \o
  <<":", " ">> \o current_step

AnnounceStep ==
  /\ pc = "announce"
  /\ IF InRange(step_index, steps)
       THEN Speaking("step",
                     step_announcement(step_index, item(steps, step_index)),
                     step_index, next_stmt(pc))
       ELSE /\ last_call' = last_call
            /\ exit("CRASHED")
            /\ trace' = Append(trace, Printed("traceback"))
  /\ UNCHANGED <<impl, request, response_text, stageVars, dishVars, final_recipe_text, loopVars, unitVars, placesVars>>

\* get_user_step_command(lang_code, step_index + 1): record, transcribe or
\* upload, ask the model, resolve its reply.
GetUserStepCommand ==
  /\ pc = "get_command"
  /\ \E l \in listen :
       IF l.status = "ok"
         THEN \E o \in completion(CommandReplies) :
                LET p == prompt_cmd(l)
                    c == resolve_command(normalize_command(o.text))
                IN /\ c = "REPEAT" => repeats < MaxRepeats
                   /\ request' = p
                   /\ last_call' = [call |-> "chat", status |-> o.status]
                   /\ IF Answered(o)
                        THEN /\ command' = c
                             /\ repeats' = IF c = "REPEAT" THEN repeats + 1
                                                           ELSE repeats
                             /\ goto(next_stmt(pc))
                             /\ trace' = trace \o
                                  <<Captured("command"), Sent(p),
                                    Ev("command", c, {}, {}, step_index)>>
                        ELSE /\ UNCHANGED <<command, repeats>>
                             /\ exit("CRASHED")
                             /\ trace' = trace \o
                                  <<Captured("command"), Sent(p),
                                    Printed("traceback")>>
         ELSE /\ UNCHANGED <<request, last_call, command, repeats>>
              /\ exit("CRASHED")
              /\ trace' = trace \o <<Captured("command"), Printed("traceback")>>
  /\ UNCHANGED <<impl, response_text, stageVars,
                 dishVars, final_recipe_text, steps, step_index, unitVars, placesVars>>

\* A plausible slip: NEXT advances by two.
step_transition_skips(c, i) ==
  IF c = "NEXT" THEN [step_index |-> i + 2, break |-> FALSE]
  ELSE IF c = "REPEAT" THEN [step_index |-> i, break |-> FALSE]
  ELSE IF c = "STOP" THEN [step_index |-> i, break |-> TRUE]
  ELSE [step_index |-> i + 1, break |-> FALSE]

\* A plausible slip: the REPEAT branch is missing, so REPEAT falls to the
\* final else.
step_transition_no_repeat(c, i) ==
  IF c = "NEXT" THEN [step_index |-> i + 1, break |-> FALSE]
  ELSE IF c = "STOP" THEN [step_index |-> i, break |-> TRUE]
  ELSE [step_index |-> i + 1, break |-> FALSE]

\* A plausible slip: the STOP branch is missing, so STOP falls to the final
\* else.
step_transition_no_stop(c, i) ==
  IF c = "NEXT" THEN [step_index |-> i + 1, break |-> FALSE]
  ELSE IF c = "REPEAT" THEN [step_index |-> i, break |-> FALSE]
  ELSE [step_index |-> i + 1, break |-> FALSE]

\* A plausible slip: REPEAT goes back to the step before.
step_transition_back(c, i) ==
  IF c = "NEXT" THEN [step_index |-> i + 1, break |-> FALSE]
  ELSE IF c = "REPEAT" THEN [step_index |-> i - 1, break |-> FALSE]
  ELSE IF c = "STOP" THEN [step_index |-> i, break |-> TRUE]
  ELSE [step_index |-> i + 1, break |-> FALSE]

\* The if/elif chain on the command: the next step_index, and whether the
\* loop is left (break).
step_transition(c, i) ==
  IF c = "NEXT" THEN [step_index |-> i + 1, break |-> FALSE]
  ELSE IF c = "REPEAT" THEN [step_index |-> i, break |-> FALSE]
  ELSE IF c = "STOP" THEN [step_index |-> i, break |-> TRUE]
  ELSE [step_index |-> i + 1, break |-> FALSE]

Dispatch ==
  /\ pc = "dispatch"
  /\ LET t == step_transition(command, step_index) IN
       /\ step_index' = t.step_index
       /\ IF t.break
            THEN /\ exit("STOPPED")
                 /\ trace' = trace \o <<Printed("user_stopped"),
                                        Printed("finished")>>
            ELSE goto("loop_test") /\ trace' = trace
  /\ UNCHANGED <<impl, request, response_text, last_call, stageVars, dishVars,
                 final_recipe_text, steps, command, repeats, unitVars, placesVars>>

(***************************************************************************)
(* The specification of a run of main().                                   *)
(***************************************************************************)
Start ==
  /\ pc = "capture_ingredients"
  /\ outcome = "RUNNING"
  /\ request = NoPrompt
  /\ response_text = EmptyText
  /\ last_call = [call |-> "none", status |-> "none"]
  /\ lang_code = EmptyText /\ ai_question = EmptyText
  /\ dish_name = EmptyText /\ ingredients_text = EmptyText
  /\ question_text = EmptyText /\ base_recipe_text = EmptyText
  /\ image_prompt = EmptyText
  /\ final_recipe_text = EmptyText
  /\ steps = << >> /\ step_index = 0 /\ command = "none" /\ repeats = 0
  /\ trace = << >>

\* No restaurant search is under way.
NoSearch ==
  /\ max_results = 0 /\ restaurants = << >> /\ pagetoken = {}
  /\ pages = << >> /\ places_pc = "idle" /\ places = << >>
  /\ recommendation = "none"

Init ==
  /\ impl \in {"openai", "gemini"}
  /\ Start
  /\ reply = EmptyText /\ resolved = "none" /\ unit = "main"
  /\ NoSearch

Next ==
  \/ CaptureIngredients \/ CompleteStage1 \/ ParseLangAndOptions
  \/ SpeakQuestion
  \/ CaptureChoice \/ CompleteStage2 \/ ParseDishBlock \/ GenerateImage
  \/ SpeakAvailability
  \/ CaptureAvailability \/ CompleteStage3 \/ SpeakFinalRecipe
  \/ CompleteStage4 \/ ParseSteps
  \/ CompleteIntro \/ SpeakIntro
  \/ LoopTest \/ AnnounceStep \/ GetUserStepCommand \/ Dispatch

Spec == Init /\ [][Next]_vars

\* The statements of the step loop.
StepLoop == LoopTest \/ AnnounceStep \/ GetUserStepCommand \/ Dispatch

\* main() is one thread of blocking calls, each of which returns or raises:
\* a statement of the loop that can run does run.
SpecLive == Spec /\ WF_vars(StepLoop)

(***************************************************************************)
(* The command interpreter alone, on replies made of fragments.            *)
(***************************************************************************)
Fragments ==
  { <<"R", "E", "P", "E", "A", "T", " ">>,
    <<"S", "T", "O", "P">>,
    <<"r", "e", "p", "e", "a", "t">>,
    <<"s", "t", "o", "p", " ", "n", "o", "w">>,
    <<"p", "l", "e", "a", "s", "e", " ">>,
    <<"s", "u", "r", "e", " ", "g", "o", " ", "a", "h", "e", "a", "d">>,
    <<"n", "e", "x", "t">>,
    <<"R", "E">>, <<"P", "E", "A", "T">>, <<"S", "T">>, <<"o", "p">> }

CommandTexts ==
  { concat(w) : w \in UNION { [1..n -> Fragments] : n \in 0..MaxWords } }

InitCommand ==
  /\ impl \in {"openai", "gemini"}
  /\ Start
  /\ reply \in CommandTexts /\ resolved = "pending"
  /\ unit = "get_user_step_command"
  /\ NoSearch

\* command_raw = <the model's reply>.strip().upper(), then the three tests
InterpretReply ==
  /\ unit = "get_user_step_command"
  /\ resolved = "pending"
  /\ resolved' = resolve_command(normalize_command(reply))
  /\ UNCHANGED <<impl, pc, outcome, request, response_text, last_call,
                 stageVars, dishVars, final_recipe_text, loopVars, trace,
                 reply, unit, placesVars>>

NextCommand == InterpretReply

SpecCommand == InitCommand /\ [][NextCommand]_vars

(***************************************************************************)
(* The parsers alone, on texts made of lines.                              *)
(***************************************************************************)
\* "\n".join(lines)
RECURSIVE join(_)
join(ls) ==
  IF ls = << >> THEN << >>
  ELSE IF Len(ls) = 1 THEN ls[1]
  ELSE ls[1] \o NEWLINE \o join(Tail(ls))

TextsOf(lines) ==
  { join(w) : w \in UNION { [1..n -> lines] : n \in 0..MaxLines } }

\* Lines a stage-1 reply may have.
LangLines ==
  { <<"L", "A", "N", "G", ":", " ", "H", "I">>,
    <<" ", "L", "A", "N", "G", ":", "t", "a", " ">>,
    <<"L", "A", "N", "G", ":">>,
    <<"l", "a", "n", "g", ":", " ", "t", "e">>,
    <<"O", "P", "T", "I", "O", "N", "S", ":", " ", "A", " ", "o", "r", " ", "B", "?">>,
    <<"N", "o", "t", "e", ":", " ", "L", "A", "N", "G", ":", " ", "t", "e">>,
    <<"s", "a", "y", " ", "L", "A", "N", "G", ":", " ", "K", "n">>,
    <<"p", "i", "c", "k", " ", "O", "P", "T", "I", "O", "N", "S", ":", " ", "C">>,
    <<"L", "A", "N", "G", ":", " ", "h", "i", " ", "o", "k">>,
    <<"L", "A", "N", "G", " ", "h", "i">>,
    <<"D", "a", "l", "?">> }

LangTexts == TextsOf(LangLines)

\* Lines a steps reply may have.
StepLines ==
  { <<"S", "T", "E", "P", " ", "3", ":", " ", "B", "o", "i", "l", " ", "w", "a", "t", "e", "r">>,
    <<"S", "T", "E", "P", " ", "3", " ", "-", " ", "B", "o", "i", "l", " ", "w", "a", "t", "e", "r">>,
    <<"S", "T", "E", "P", " ", "3">>,
    <<"s", "t", "e", "p", " ", "1", ":", "a">>,
    <<" ", "S", "t", "e", "p", " ", "2", " ", "-", " ", "b", ":", " ", "c", " ">>,
    <<"S", "T", "E", "P", " ", "4", ":", " ", "d", " ", "-", " ", "e">>,
    <<"S", "t", "e", "p", "s", ":", " ", "f">>,
    <<"1", ":", " ", "g">>,
    <<"S", "T", "E", "P", " ", "5", ":">>,
    <<>> }

StepsTexts == TextsOf(StepLines)

\* Lines a dish-block reply may have: for each field, the forms of its line.
DishFieldLines ==
  << { <<" ", " ", "D", "I", "S", "H", ":", " ", "D", "a", "l", " ">>,
       <<"D", "I", "S", "H", ":", "A", "l", "o", "o", ":", " ", "g", "o", "b", "i">> },
     { <<"I", "N", "G", "R", "E", "D", "I", "E", "N", "T", "S", ":", " ", "a", ",", " ", "b">> },
     { <<"Q", "U", "E", "S", "T", "I", "O", "N", ":", "o", "k", ":", " ", "y", "e", "s", "?">> },
     { <<"R", "E", "C", "I", "P", "E", ":", " ", "1", ":", " ", "m", "i", "x", " ", "-", " ", "2", ":", " ", "f", "r", "y">> },
     { <<"I", "M", "G", ":", " ", "d", "a", "l", " ", "b", "o", "w", "l">>,
       <<"I", "M", "G", ":">> } >>

\* Lines that belong to no field, and a second DISH line.
DishStrayLines ==
  { <<"H", "e", "r", "e", " ", "y", "o", "u", " ", "g", "o", ":">>,
    <<"n", "o", "t", "e", " ", "D", "I", "S", "H", ":", " ", "F", "a", "k", "e">>,
    <<"d", "i", "s", "h", ":", " ", "l", "o", "w", "e", "r">>,
    <<"D", "I", "S", "H", ":", " ", "O", "t", "h", "e", "r">> }

Absent == <<"absent">>

\* The orders the five field lines may come in.
DishOrders == { o \in [1..5 -> 1..5] : \A a, b \in 1..5 : o[a] = o[b] => a = b }

\* A reply: each field absent or in one of its forms, the fields in some
\* order, and possibly a stray line before or after them.
DishLinesOf(o, choice) ==
  LET present(f) == choice[f] # Absent
      fields == SelectSeq(o, present)
  IN [k \in DOMAIN fields |-> choice[fields[k]]]

DishChoices ==
  { c \in [1..5 -> UNION { DishFieldLines[f] : f \in 1..5 } \cup {Absent}] :
      \A f \in 1..5 : c[f] \in DishFieldLines[f] \cup {Absent} }

DishTexts ==
  LET bodies == { DishLinesOf(o, c) : o \in DishOrders, c \in DishChoices } IN
    { join(b) : b \in bodies }
    \cup { join(<<s>> \o b) : s \in DishStrayLines, b \in bodies }
    \cup { join(b \o <<s>>) : s \in DishStrayLines, b \in bodies }

ParserUnits == {"parse_lang_and_options", "parse_dish_block", "parse_steps"}

UnitTexts(u) ==
  IF u = "parse_lang_and_options" THEN LangTexts
  ELSE IF u = "parse_dish_block" THEN DishTexts
  ELSE StepsTexts

\* The parsers of recipe_generator.py are those of new.py, line for line.
InitParsers ==
  /\ impl = "openai"
  /\ Start
  /\ unit \in ParserUnits
  /\ reply \in UnitTexts(unit) /\ resolved = "pending"
  /\ NoSearch

\* lang_code, ai_question = parse_lang_and_options(response_text)
CallParseLangAndOptions ==
  /\ unit = "parse_lang_and_options" /\ resolved = "pending"
  /\ IF parse_lang_and_options_raises(reply)
       THEN resolved' = "IndexError" /\ UNCHANGED stageVars
       ELSE LET r == parse_lang_and_options(reply) IN
              /\ lang_code' = r.lang_code
              /\ ai_question' = r.ai_question
              /\ resolved' = "returned"
  /\ UNCHANGED <<impl, pc, outcome, request, response_text, last_call,
                 dishVars, final_recipe_text, loopVars, trace, reply, unit, placesVars>>

\* dish_name, ... , image_prompt = parse_dish_block(final_text)
CallParseDishBlock ==
  /\ unit = "parse_dish_block" /\ resolved = "pending"
  /\ IF parse_dish_block_raises(reply)
       THEN resolved' = "IndexError" /\ UNCHANGED dishVars
       ELSE LET r == parse_dish_block(reply) IN
              /\ dish_name' = r.dish_name
              /\ ingredients_text' = r.ingredients_text
              /\ question_text' = r.question_text
              /\ base_recipe_text' = r.base_recipe_text
              /\ image_prompt' = r.image_prompt
              /\ resolved' = "returned"
  /\ UNCHANGED <<impl, pc, outcome, request, response_text, last_call,
                 stageVars, final_recipe_text, loopVars, trace, reply, unit, placesVars>>

\* steps = parse_steps(steps_text)
CallParseSteps ==
  /\ unit = "parse_steps" /\ resolved = "pending"
  /\ steps' = parse_steps(reply)
  /\ resolved' = "returned"
  /\ UNCHANGED <<impl, pc, outcome, request, response_text, last_call,
                 stageVars, dishVars, final_recipe_text, step_index, command,
                 repeats, trace, reply, unit, placesVars>>

NextParsers ==
  \/ CallParseLangAndOptions \/ CallParseDishBlock \/ CallParseSteps

SpecParsers == InitParsers /\ [][NextParsers]_vars

(***************************************************************************)
(* nearby_restaurants.py: get_nearby_restaurants_from_google taken alone,  *)
(* on the pages the Places API may answer, and what its caller             *)
(* get_restaurant_recommendations makes of the result.                     *)
(***************************************************************************)
mainVars ==
  <<impl, pc, outcome, request, response_text, last_call, stageVars, dishVars,
    final_recipe_text, loopVars, trace>>

\* What a page may list: each place by what its JSON holds of
\* geometry.location.lat and geometry.location.lng.
Listings ==
  { << >>,
    <<"ok">>,
    <<"ok", "ok">>,
    <<"no_geometry", "ok">>,
    <<"ok", "no_location", "ok">>,
    <<"no_lng">>,
    <<"no_lat", "ok", "ok", "ok">> }

\* The places of page n, each with its own place_id.
Listed(n, l) ==
  [k \in 1..Len(l) |-> [place_id |-> <<n, k>>, shape |-> l[k]]]

NonOkStatuses == {"ZERO_RESULTS", "OVER_QUERY_LIMIT", "INVALID_REQUEST"}

\* response.json() of request n.  A token is the set holding it, empty when
\* the page has none; the last page the API hands out has none.
PageResponses(n) ==
  {[status |-> "OK", results |-> Listed(n, l), next_page_token |-> t] :
     l \in Listings, t \in (IF n < MaxPages THEN {{}, {n}} ELSE {{}})}
  \cup {[status |-> st, results |-> << >>, next_page_token |-> {}] :
          st \in NonOkStatuses}

\* loc = place["geometry"]["location"]; p_lat, p_lon = loc["lat"], loc["lng"]
raises_KeyError(place) ==
  place.shape \in {"no_geometry", "no_location", "no_lat", "no_lng"}

\* The dict appended for a place.
restaurant(place) == [place_id |-> place.place_id]

\* A plausible slip: the cap is tested with > instead of >=.
cap_reached_late(n, max) == n > max

\* if len(restaurants) >= max_results
cap_reached(n, max) == n >= max

\* A plausible slip: ZERO_RESULTS returns what was collected so far.
on_zero_results_keeps(collected) == collected

\* if status == "ZERO_RESULTS": return []
on_zero_results(collected) == << >>

\* for place in data.get("results", []): try ... except KeyError: continue,
\* from place k on.  returned says that the cap ended the call.
RECURSIVE append_places(_, _, _, _)
append_places(results, k, rs, max) ==
  IF k > Len(results) THEN [restaurants |-> rs, returned |-> FALSE]
  ELSE IF raises_KeyError(results[k])
    THEN append_places(results, k + 1, rs, max)
  ELSE LET more == Append(rs, restaurant(results[k])) IN
         IF cap_reached(Len(more), max)
           THEN [restaurants |-> more, returned |-> TRUE]
           ELSE append_places(results, k + 1, more, max)

InitPlaces ==
  /\ impl = "openai"
  /\ Start
  /\ reply = EmptyText /\ resolved = "pending"
  /\ unit = "get_nearby_restaurants_from_google"
  /\ max_results \in 0..MaxResults
  /\ restaurants = << >> /\ pagetoken = {} /\ pages = << >>
  /\ places_pc = "while" /\ places = << >> /\ recommendation = "none"

\* One turn of the while loop: the request, the status tests, the places,
\* the token.
RequestPage ==
  /\ unit = "get_nearby_restaurants_from_google"
  /\ places_pc = "while"
  /\ Len(restaurants) < max_results
  /\ \E data \in PageResponses(Len(pages) + 1) :
       /\ pages' = Append(pages, [pagetoken |-> pagetoken, data |-> data])
       /\ IF data.status = "ZERO_RESULTS"
            THEN /\ places' = on_zero_results(restaurants)
                 /\ places_pc' = "returned"
                 /\ UNCHANGED <<restaurants, pagetoken>>
          ELSE IF data.status # "OK"
            THEN /\ places_pc' = "raised"
                 /\ UNCHANGED <<restaurants, pagetoken, places>>
          ELSE LET c == append_places(data.results, 1, restaurants,
                                      max_results)
               IN /\ restaurants' = c.restaurants
                  /\ IF c.returned \/ data.next_page_token = {}
                       THEN /\ places' = c.restaurants
                            /\ places_pc' = "returned"
                            /\ pagetoken' = pagetoken
                       ELSE /\ pagetoken' = data.next_page_token
                            /\ UNCHANGED <<places, places_pc>>
  /\ UNCHANGED <<mainVars, unitVars, max_results, recommendation>>

\* The while test fails: return restaurants
ReturnRestaurants ==
  /\ unit = "get_nearby_restaurants_from_google"
  /\ places_pc = "while"
  /\ ~(Len(restaurants) < max_results)
  /\ places' = restaurants
  /\ places_pc' = "returned"
  /\ UNCHANGED <<mainVars, unitVars, max_results, restaurants, pagetoken,
                 pages, recommendation>>

\* places = get_nearby_restaurants_from_google(lat, lon, craving);
\* if not places: return "No restaurants found ..."; the RuntimeError goes
\* up to main(), which prints it.
get_restaurant_recommendations ==
  /\ unit = "get_nearby_restaurants_from_google"
  /\ places_pc \in {"returned", "raised"}
  /\ recommendation = "none"
  /\ recommendation' =
       IF places_pc = "raised" THEN "RuntimeError"
       ELSE IF places = << >> THEN "no_restaurants_found"
       ELSE "asks_model"
  /\ UNCHANGED <<mainVars, unitVars, max_results, restaurants, pagetoken,
                 pages, places_pc, places>>

NextPlaces == RequestPage \/ ReturnRestaurants \/ get_restaurant_recommendations

SpecPlaces == InitPlaces /\ [][NextPlaces]_vars

(***************************************************************************)
(* Reading the trace.                                                      *)
(***************************************************************************)
IsAnnounce(e) == e.kind = "speak" /\ e.what = "step"
IsSolicit(e) == e.kind = "capture" /\ e.what = "command"
IsCommand(e) == e.kind = "command"
IsLoopCall(e) == IsAnnounce(e) \/ IsSolicit(e)
IsCall(e) == e.kind \in {"capture", "complete", "speak", "image"}

Announcements == SelectSeq(trace, IsAnnounce)
Commands == SelectSeq(trace, IsCommand)
After(k) == SubSeq(trace, k + 1, Len(trace))
LastCommand == Commands[Len(Commands)]

\* sub occurs in s, said without a scan.
HasSubstring(s, sub) ==
  \E i \in 1..(Len(s) - Len(sub) + 1) : SubSeq(s, i, i + Len(sub) - 1) = sub

\* "REPEAT STOP"
TextRepeatStop == <<"R", "E", "P", "E", "A", "T", " ", "S", "T", "O", "P">>

(***************************************************************************)
(* C1.  Every raw command reply (empty, lowercase, with extra words)       *)
(* resolves to exactly one of NEXT, REPEAT, STOP, decided on the uppercased*)
(* text: REPEAT if it contains "REPEAT" (also when it contains "STOP"),    *)
(* otherwise STOP if it contains "STOP", otherwise NEXT.                   *)
(***************************************************************************)
C1_CommandResolution ==
  resolved # "pending" =>
    LET u == upper(reply)
        hasRepeat == HasSubstring(u, KW_REPEAT)
        hasStop == HasSubstring(u, KW_STOP)
    IN /\ resolved \in {"NEXT", "REPEAT", "STOP"}
       /\ (resolved = "REPEAT") = hasRepeat
       /\ (resolved = "STOP") = (~hasRepeat /\ hasStop)
       /\ (resolved = "NEXT") = (~hasRepeat /\ ~hasStop)

\* "REPEAT STOP" has been resolved, to REPEAT.
C1_Witness == reply = TextRepeatStop /\ resolved = "REPEAT"

(***************************************************************************)
(* C2.  A NEXT received while awaiting step i moves the cursor to exactly  *)
(* i+1; if i+1 = N the loop ends FINISHED, with no further step announced  *)
(* and no further command solicited; otherwise step i+1 is the next step   *)
(* announced.                                                              *)
(***************************************************************************)
C2_AfterNext ==
  \A k \in DOMAIN trace :
    (IsCommand(trace[k]) /\ trace[k].what = "NEXT") =>
      LET i == trace[k].idx
          later == SelectSeq(After(k), IsLoopCall)
      IN IF i + 1 = Len(steps)
           THEN /\ later = << >>
                /\ pc \in {"dispatch", "loop_test", "exit"}
                /\ pc = "exit" => outcome = "FINISHED"
           ELSE later # << >> =>
                  IsAnnounce(later[1]) /\ later[1].idx = i + 1

C2_NextAdvances ==
  [][ /\ (pc = "dispatch" /\ command = "NEXT") => step_index' = step_index + 1
      /\ C2_AfterNext' ]_vars

\* Three steps, NEXT at each: the loop has ended FINISHED.
C2_Witness ==
  /\ Len(steps) = 3 /\ outcome = "FINISHED"
  /\ Len(Commands) = 3 /\ \A j \in 1..3 : Commands[j].what = "NEXT"

(***************************************************************************)
(* C3.  A REPEAT received while awaiting step i leaves step_index equal to *)
(* i and the steps list unchanged, and the very next announcement is step  *)
(* i again: the same text, the same 1-based number.                        *)
(***************************************************************************)
C3_AfterRepeat ==
  \A k \in DOMAIN trace :
    (IsCommand(trace[k]) /\ trace[k].what = "REPEAT") =>
      LET before == SelectSeq(SubSeq(trace, 1, k), IsAnnounce)
          later == SelectSeq(After(k), IsLoopCall)
      IN /\ before # << >>
         /\ before[Len(before)].idx = trace[k].idx
         /\ later # << >> => later[1] = before[Len(before)]

C3_RepeatHolds ==
  [][ /\ (pc = "dispatch" /\ command = "REPEAT") =>
           (step_index' = step_index /\ steps' = steps)
      /\ C3_AfterRepeat' ]_vars

\* A REPEAT on the second step, and the step announced again after it.
C3_Witness ==
  \E k \in DOMAIN trace :
    /\ IsCommand(trace[k]) /\ trace[k].what = "REPEAT" /\ trace[k].idx = 1
    /\ \E j \in (k + 1)..Len(trace) : IsAnnounce(trace[j])

(***************************************************************************)
(* C4.  A STOP received while awaiting any step ends the loop at once in   *)
(* STOPPED: no step is announced and no command solicited after it,        *)
(* whatever steps remain.  STOP in the step loop is the only way the user  *)
(* ends a session before its steps are exhausted: no earlier stage reads a *)
(* command.                                                                *)
(***************************************************************************)
C4_StopEnds ==
  /\ \A k \in DOMAIN trace :
       (IsCommand(trace[k]) /\ trace[k].what = "STOP") =>
         /\ SelectSeq(After(k), IsCall) = << >>
         /\ pc \in {"dispatch", "exit"}
         /\ pc = "exit" => outcome = "STOPPED"
  /\ outcome = "STOPPED" => (Commands # << >> /\ LastCommand.what = "STOP")
  \* a command is read only after a step has been announced
  /\ \A k \in DOMAIN trace :
       (IsCommand(trace[k]) \/ IsSolicit(trace[k])
          \/ (trace[k].kind = "complete" /\ trace[k].what = "prompt_cmd")) =>
         \E j \in 1..(k - 1) : IsAnnounce(trace[j])
  \* a run that ended on its own accord with steps left was stopped
  /\ (pc = "exit" /\ outcome \notin {"CRASHED", "QUOTA", "NO_STEPS"}
        /\ step_index < Len(steps)) => outcome = "STOPPED"

\* Stopped at the first of three steps.
C4_Witness ==
  outcome = "STOPPED" /\ Len(steps) = 3 /\ step_index = 0

(***************************************************************************)
(* C5.  step_index never decreases: each step of the run leaves it         *)
(* unchanged or raises it by exactly one; and whenever a step is read and  *)
(* announced, step_index lies in [0, len(steps)).                          *)
(***************************************************************************)
C5_IndexInRange ==
  /\ pc = "announce" => (0 <= step_index /\ step_index < Len(steps))
  /\ \A k \in DOMAIN trace :
       IsAnnounce(trace[k]) => (0 <= trace[k].idx /\ trace[k].idx < Len(steps))

C5_StepIndexMonotone ==
  [][ /\ step_index' \in {step_index, step_index + 1}
      /\ C5_IndexInRange' ]_vars

\* The last of three steps is about to be read, after a REPEAT on the way.
C5_Witness ==
  /\ pc = "announce" /\ Len(steps) = 3 /\ step_index = 2
  /\ \E j \in DOMAIN Commands : Commands[j].what = "REPEAT"

(***************************************************************************)
(* The reference step navigator: AWAITING_STEP(i) for i in [0, N), and the *)
(* terminal states FINISHED and STOPPED.  From AWAITING_STEP(i), having    *)
(* visited the steps in visited: NEXT visits i+1, or finishes if i+1 = N;  *)
(* REPEAT visits i again; STOP stops.  left is what a terminal state       *)
(* leaves unread.                                                          *)
(***************************************************************************)
RECURSIVE RefRun(_, _, _, _)
RefRun(N, i, cmds, visited) ==
  IF cmds = << >>
    THEN [visited |-> visited, state |-> "AWAITING", left |-> << >>]
  ELSE IF Head(cmds) = "NEXT"
    THEN IF i + 1 = N
           THEN [visited |-> visited, state |-> "FINISHED", left |-> Tail(cmds)]
           ELSE RefRun(N, i + 1, Tail(cmds), Append(visited, i + 1))
  ELSE IF Head(cmds) = "REPEAT"
    THEN RefRun(N, i, Tail(cmds), Append(visited, i))
  ELSE [visited |-> visited, state |-> "STOPPED", left |-> Tail(cmds)]

Reference(N, cmds) ==
  IF N = 0 THEN [visited |-> << >>, state |-> "FINISHED", left |-> cmds]
  ELSE RefRun(N, 0, cmds, <<0>>)

IsPrefix(a, b) == Len(a) <= Len(b) /\ SubSeq(b, 1, Len(a)) = a

CommandNames == [j \in DOMAIN Commands |-> Commands[j].what]
AnnouncedIndices == [j \in DOMAIN Announcements |-> Announcements[j].idx]

(***************************************************************************)
(* C6.  For every step list and command sequence the announced step        *)
(* indices are those of the reference navigator started at index 0: no     *)
(* step is skipped, none is announced after a terminal state.  With 3      *)
(* steps, [NEXT, REPEAT, NEXT, NEXT] visits 0,1,1,2 and ends FINISHED.     *)
(***************************************************************************)
C6_FollowsReference ==
  LET r == Reference(Len(steps), CommandNames) IN
    /\ r.left = << >>
    /\ IsPrefix(AnnouncedIndices, r.visited)
    /\ Len(r.visited) - Len(AnnouncedIndices) <= 1
    /\ pc = "get_command" => AnnouncedIndices = r.visited
    /\ (pc = "exit" /\ outcome \in {"FINISHED", "STOPPED"}) =>
         (r.state = outcome /\ AnnouncedIndices = r.visited)
    /\ (steps # << >> /\ r.state \in {"FINISHED", "STOPPED"}) =>
         /\ pc \in {"dispatch", "loop_test", "exit"}
         /\ pc = "exit" => outcome = r.state

\* The run of the example.
C6_Witness ==
  /\ Len(steps) = 3
  /\ CommandNames = <<"NEXT", "REPEAT", "NEXT", "NEXT">>
  /\ AnnouncedIndices = <<0, 1, 1, 2>>
  /\ outcome = "FINISHED"

(***************************************************************************)
(* C7.  When the parsed step list is empty the session ends with a notice  *)
(* and without an exception: the loop is not entered, no step is           *)
(* announced, the protocol instruction is neither asked for nor spoken,    *)
(* and no command is solicited.                                            *)
(***************************************************************************)
StepsParsed == \E k \in DOMAIN trace : trace[k] = Parsed("steps")

C7_EmptyStepsEndQuietly ==
  (StepsParsed /\ steps = << >>) =>
    /\ pc = "exit" /\ outcome = "NO_STEPS"
    /\ trace[Len(trace)] = Printed("could_not_parse_steps")
    /\ \A k \in DOMAIN trace :
         /\ ~IsAnnounce(trace[k]) /\ ~IsSolicit(trace[k]) /\ ~IsCommand(trace[k])
         /\ ~(trace[k].kind = "speak" /\ trace[k].what = "intro")
         /\ ~(trace[k].kind = "complete"
                /\ trace[k].what \in {"intro_prompt", "prompt_cmd"})
         /\ trace[k] # Printed("traceback")

\* A recipe was produced and spoken, and no step line came back.
C7_Witness ==
  outcome = "NO_STEPS" /\ final_recipe_text # EmptyText /\ step_index = 0

(***************************************************************************)
(* C8.  Each entry or re-entry into AWAITING_STEP(i) announces step i,     *)
(* spoken with the number i+1, and only then solicits exactly one command; *)
(* the transition is taken only after that command is interpreted.         *)
(* Announcements and solicitations alternate, an announcement first.       *)
(***************************************************************************)
C8_AnnounceThenSolicit ==
  LET calls == SelectSeq(trace, IsLoopCall) IN
    /\ \A j \in DOMAIN calls :
         IF j % 2 = 1 THEN IsAnnounce(calls[j]) ELSE IsSolicit(calls[j])
    /\ \A k \in DOMAIN trace :
         IsAnnounce(trace[k]) =>
           /\ trace[k].idx \in 0..(Len(steps) - 1)
           /\ trace[k].text =
                { <<"S", "t", "e", "p", " ">> \o str(trace[k].idx + 1)
                    \o <<":", " ">> \o steps[trace[k].idx + 1] }
    /\ \A k \in DOMAIN trace :
         IsCommand(trace[k]) =>
           /\ k >= 4
           /\ IsAnnounce(trace[k - 3]) /\ trace[k - 3].idx = trace[k].idx
           /\ IsSolicit(trace[k - 2])
           /\ trace[k - 1].kind = "complete" /\ trace[k - 1].what = "prompt_cmd"
    /\ pc = "get_command" =>
         (IsAnnounce(trace[Len(trace)]) /\ trace[Len(trace)].idx = step_index)
    /\ pc = "dispatch" =>
         (IsCommand(trace[Len(trace)]) /\ trace[Len(trace)].idx = step_index)

\* Two rounds of announce and solicit, the second command just interpreted.
C8_Witness ==
  pc = "dispatch" /\ Len(SelectSeq(trace, IsLoopCall)) = 4 /\ step_index = 1

(***************************************************************************)
(* C9.  The stages of the dialogue occur in one fixed order, none before   *)
(* the one before it has returned: capture ingredients, stage-1            *)
(* completion, parse language/options, speak question, capture dish        *)
(* choice, stage-2 completion, parse dish block, image generation, speak   *)
(* availability prompt, capture availability, stage-3 completion, speak    *)
(* final recipe, stage-4 completion, parse steps, speak protocol           *)
(* instruction, step loop.                                                 *)
(***************************************************************************)
StageOrder ==
  << <<"capture", "ingredients">>, <<"complete", "prompt_1">>,
     <<"parse", "lang_and_options">>, <<"speak", "question">>,
     <<"capture", "choice">>, <<"complete", "prompt_2">>,
     <<"parse", "dish_block">>, <<"image", "generate">>,
     <<"speak", "availability">>, <<"capture", "availability">>,
     <<"complete", "prompt_3">>, <<"speak", "final_recipe">>,
     <<"complete", "prompt_steps">>, <<"parse", "steps">>,
     <<"speak", "intro">> >>

StageNames == { StageOrder[j] : j \in DOMAIN StageOrder }
StageName(e) == <<e.kind, e.what>>
IsStage(e) == StageName(e) \in StageNames
IsLoopEvent(e) ==
  \/ IsAnnounce(e) \/ IsSolicit(e) \/ IsCommand(e)
  \/ (e.kind = "complete" /\ e.what = "prompt_cmd")
StagesDone == SelectSeq(trace, IsStage)

C9_FixedStageOrder ==
  LET done == StagesDone IN
    \* the stages run so far are the first ones of the order, each once
    /\ Len(done) <= Len(StageOrder)
    /\ \A j \in DOMAIN done : StageName(done[j]) = StageOrder[j]
    \* the step loop starts after the last stage
    /\ \A k \in DOMAIN trace :
         IsLoopEvent(trace[k]) =>
           \E j \in 1..(k - 1) : StageName(trace[j]) = <<"speak", "intro">>
    \* and nothing else is called, but for the request for the instruction
    /\ \A k \in DOMAIN trace :
         \/ IsStage(trace[k]) \/ IsLoopEvent(trace[k])
         \/ trace[k].kind = "print"
         \/ (trace[k].kind = "complete" /\ trace[k].what = "intro_prompt")

\* Every stage has run and the step loop is waiting for a command.
C9_Witness ==
  pc = "get_command" /\ Len(StagesDone) = Len(StageOrder) /\ impl = "gemini"

(***************************************************************************)
(* C10.  The language_code resolved in stage 1 is never reassigned, and    *)
(* every later external call carries it: the stage-2, stage-3 and stage-4  *)
(* requests, the protocol-instruction request, every command request and   *)
(* every Speak call.                                                       *)
(***************************************************************************)
C10_CallsCarryLanguage ==
  \A k \in DOMAIN trace :
    trace[k] = Parsed("lang_and_options") =>
      \A j \in (k + 1)..Len(trace) :
        (trace[j].kind = "speak"
           \/ (trace[j].kind = "complete"
                 /\ trace[j].what \in {"prompt_2", "prompt_3", "prompt_steps",
                                       "intro_prompt", "prompt_cmd"})) =>
          trace[j].lang = {lang_code}

C10_LanguageCarriedForward ==
  [][ /\ pc # "parse_1" => lang_code' = lang_code
      /\ C10_CallsCarryLanguage' ]_vars

\* Hindi was resolved, and a second command has been asked for in it.
C10_Witness ==
  /\ lang_code = <<"h", "i">> /\ pc = "dispatch" /\ Len(Commands) = 2
  /\ request.template = "prompt_cmd" /\ request.lang = {<<"h", "i">>}

(***************************************************************************)
(* Reading a text: its lines, a line without its surrounding whitespace,   *)
(* what follows the first occurrence of a character, said without a scan.  *)
(***************************************************************************)
Least(S) == CHOOSE x \in S : \A y \in S : x <= y
Greatest(S) == CHOOSE x \in S : \A y \in S : x >= y

LinesOf(s) ==
  LET nl == {i \in 1..Len(s) : s[i] = "\n"}
      n == Cardinality(nl) + 1
      brk(j) == CHOOSE i \in nl : Cardinality({x \in nl : x < i}) = j - 1
      first(k) == IF k = 1 THEN 1 ELSE brk(k - 1) + 1
      last(k) == IF k = n THEN Len(s) ELSE brk(k) - 1
  IN [k \in 1..n |-> SubSeq(s, first(k), last(k))]

Trimmed(s) ==
  LET ink == {i \in 1..Len(s) : s[i] \notin {" ", "\t", "\r", "\n"}} IN
    IF ink = {} THEN << >> ELSE SubSeq(s, Least(ink), Greatest(ink))

AfterFirst(s, ch) ==
  SubSeq(s, Least({i \in 1..Len(s) : s[i] = ch}) + 1, Len(s))

Has(s, ch) == \E i \in 1..Len(s) : s[i] = ch

Begins(s, p) == Len(p) <= Len(s) /\ \A i \in 1..Len(p) : s[i] = p[i]

Lowercased(s) ==
  [i \in 1..Len(s) |->
     IF \E j \in 1..26 : UpperLetters[j] = s[i]
       THEN LowerLetters[CHOOSE j \in 1..26 : UpperLetters[j] = s[i]]
       ELSE s[i]]

\* The lines of s that contain sub, by their numbers.
LinesWith(s, sub) == {k \in DOMAIN LinesOf(s) : HasSubstring(LinesOf(s)[k], sub)}

\* The lines of s that begin with p, once trimmed.
LinesBeginning(s, p) ==
  {k \in DOMAIN LinesOf(s) : Begins(Trimmed(LinesOf(s)[k]), p)}

TextLANG == <<"L", "A", "N", "G", ":">>
TextOPTIONS == <<"O", "P", "T", "I", "O", "N", "S", ":">>
TextEn == <<"e", "n">>

LangParsed == \E k \in DOMAIN trace : trace[k] = Parsed("lang_and_options")

(***************************************************************************)
(* C11.  language_code is a non-empty string in every state after stage 1  *)
(* has run, whatever the stage-1 response was, also one whose LANG: line   *)
(* has nothing after the colon.                                            *)
(***************************************************************************)
C11_LanguageCodeNonEmpty == LangParsed => lang_code # EmptyText

LangReturned == unit = "parse_lang_and_options" /\ resolved = "returned"

\* The word that follows the first occurrence of sub in s.
WordAfter(s, sub) ==
  LET at == Least({i \in 1..(Len(s) - Len(sub) + 1) :
                     SubSeq(s, i, i + Len(sub) - 1) = sub})
      rest == Trimmed(SubSeq(s, at + Len(sub), Len(s)))
      blanks == {i \in 1..Len(rest) : rest[i] \in {" ", "\t", "\r"}}
  IN IF blanks = {} THEN rest ELSE SubSeq(rest, 1, Least(blanks) - 1)

(***************************************************************************)
(* C12, as stated.  For every response with a line that contains           *)
(* `LANG: xx`, parse_lang_and_options returns xx lowercased as             *)
(* language_code, whatever the case of xx, the other lines and the other   *)
(* text on the same line.                                                  *)
(***************************************************************************)
C12_LangExtractedAnywhere ==
  LangReturned =>
    \A k \in LinesWith(reply, TextLANG) :
      LinesWith(reply, TextLANG) = {k} =>
        lang_code = Lowercased(WordAfter(LinesOf(reply)[k], TextLANG))

(***************************************************************************)
(* C12, amended.  For every response whose last line containing `LANG:`    *)
(* begins with `LANG:` (leading whitespace apart), parse_lang_and_options  *)
(* returns as language_code all that follows that colon on the line,       *)
(* trimmed and lowercased, whatever its case and the other lines.          *)
(***************************************************************************)
C12_LangExtracted ==
  LangReturned =>
    LET with == LinesWith(reply, TextLANG) IN
      (with # {} /\ Greatest(with) \in LinesBeginning(reply, TextLANG)) =>
        lang_code =
          Lowercased(Trimmed(AfterFirst(LinesOf(reply)[Greatest(with)], ":")))

\* "Dal?\nLANG: HI\nOPTIONS: A or B?" has been parsed, to "hi".
C12_Witness ==
  /\ LangReturned
  /\ reply = <<"D", "a", "l", "?", "\n", "L", "A", "N", "G", ":", " ", "H", "I", "\n", "O", "P", "T", "I", "O", "N", "S", ":", " ", "A", " ", "o", "r", " ", "B", "?">>
  /\ lang_code = <<"h", "i">>

(***************************************************************************)
(* C13, as stated.  For every response with no `LANG:` line,               *)
(* parse_lang_and_options returns "en" as language_code and the full raw   *)
(* response text as the question.                                          *)
(***************************************************************************)
C13_NoLangGivesRawQuestion ==
  (LangReturned /\ LinesWith(reply, TextLANG) = {}) =>
    (lang_code = TextEn /\ ai_question = reply)

(***************************************************************************)
(* C13, amended.  For every response with no `LANG:` line,                 *)
(* parse_lang_and_options returns "en" as language_code, and the full raw  *)
(* response text as the question when no line contains `OPTIONS:` either.  *)
(***************************************************************************)
C13_NoLangGivesDefault ==
  (LangReturned /\ LinesWith(reply, TextLANG) = {}) =>
    /\ lang_code = TextEn
    /\ LinesWith(reply, TextOPTIONS) = {} => ai_question = reply

\* "Dal?\nlang: te" has no LANG: line: "en", and the text as it came.
C13_Witness ==
  /\ LangReturned
  /\ reply = <<"D", "a", "l", "?", "\n", "l", "a", "n", "g", ":", " ", "t", "e">>
  /\ lang_code = TextEn /\ ai_question = reply

DishReturned == unit = "parse_dish_block" /\ resolved = "returned"

TextDISH == <<"D", "I", "S", "H", ":">>
TextINGREDIENTS == <<"I", "N", "G", "R", "E", "D", "I", "E", "N", "T", "S", ":">>
TextQUESTION == <<"Q", "U", "E", "S", "T", "I", "O", "N", ":">>
TextRECIPE == <<"R", "E", "C", "I", "P", "E", ":">>
TextIMG == <<"I", "M", "G", ":">>
TextIndianFood == <<"I", "n", "d", "i", "a", "n", " ", "f", "o", "o", "d">>

\* The five fields: the prefix of each, what was returned for it, and
\* what it is when absent.
DishFields ==
  << [prefix |-> TextDISH, value |-> dish_name, default |-> << >>],
     [prefix |-> TextINGREDIENTS, value |-> ingredients_text, default |-> << >>],
     [prefix |-> TextQUESTION, value |-> question_text, default |-> << >>],
     [prefix |-> TextRECIPE, value |-> base_recipe_text, default |-> << >>],
     [prefix |-> TextIMG, value |-> image_prompt, default |-> TextIndianFood] >>

\* What follows the first colon of the one line of reply that begins with p.
OnItsLine(p) ==
  LET k == CHOOSE j \in LinesBeginning(reply, p) : TRUE IN
    Trimmed(AfterFirst(LinesOf(reply)[k], ":"))

OneLine(p) == Cardinality(LinesBeginning(reply, p)) = 1

(***************************************************************************)
(* C14.  For every dish-block response in which each of DISH:,             *)
(* INGREDIENTS:, QUESTION:, RECIPE:, IMG: starts exactly one line (a line  *)
(* is taken without its surrounding whitespace), in any order and with any *)
(* other lines in between, parse_dish_block returns for each field all     *)
(* that follows the first colon of its line, trimmed, later colons kept.   *)
(***************************************************************************)
C14_DishBlockExtracted ==
  (DishReturned /\ \A f \in 1..5 : OneLine(DishFields[f].prefix)) =>
    \A f \in 1..5 : DishFields[f].value = OnItsLine(DishFields[f].prefix)

\* All five fields, IMG: before DISH:, a stray line first, colons in the
\* values.
C14_Witness ==
  /\ DishReturned
  /\ \A f \in 1..5 : OneLine(DishFields[f].prefix)
  /\ Begins(reply, <<"H", "e", "r", "e", " ", "y", "o", "u", " ", "g", "o", ":">>)
  /\ \A i \in LinesBeginning(reply, TextIMG) :
       \A d \in LinesBeginning(reply, TextDISH) : i < d
  /\ dish_name = <<"A", "l", "o", "o", ":", " ", "g", "o", "b", "i">>
  /\ question_text = <<"o", "k", ":", " ", "y", "e", "s", "?">>
  /\ base_recipe_text = <<"1", ":", " ", "m", "i", "x", " ", "-", " ", "2", ":", " ", "f", "r", "y">>
  /\ image_prompt = <<"d", "a", "l", " ", "b", "o", "w", "l">>

(***************************************************************************)
(* C15.  In parse_dish_block each field defaults on its own: a field whose *)
(* prefix starts no line is "" for dish_name, ingredients_text,            *)
(* question_text and base_recipe_text and "Indian food" for image_prompt,  *)
(* and a field whose line is there is extracted, whatever the other fields *)
(* are.                                                                    *)
(***************************************************************************)
C15_FieldsDefaultIndependently ==
  DishReturned =>
    \A f \in 1..5 :
      LET p == DishFields[f].prefix IN
        /\ LinesBeginning(reply, p) = {} =>
             DishFields[f].value = DishFields[f].default
        /\ OneLine(p) => DishFields[f].value = OnItsLine(p)

\* No IMG: line and no QUESTION: line, and the other three extracted.
C15_Witness ==
  /\ DishReturned
  /\ LinesBeginning(reply, TextIMG) = {}
  /\ LinesBeginning(reply, TextQUESTION) = {}
  /\ image_prompt = TextIndianFood /\ question_text = << >>
  /\ dish_name = <<"D", "a", "l">>
  /\ ingredients_text = <<"a", ",", " ", "b">>
  /\ base_recipe_text = <<"1", ":", " ", "m", "i", "x", " ", "-", " ", "2", ":", " ", "f", "r", "y">>

StepsReturned == unit = "parse_steps" /\ resolved = "returned"

TextStep == <<"s", "t", "e", "p">>
TextBoilWater == <<"B", "o", "i", "l", " ", "w", "a", "t", "e", "r">>
TextStep3Colon == <<"S", "T", "E", "P", " ", "3", ":", " ", "B", "o", "i", "l", " ", "w", "a", "t", "e", "r">>
TextStep3Hyphen == <<"S", "T", "E", "P", " ", "3", " ", "-", " ", "B", "o", "i", "l", " ", "w", "a", "t", "e", "r">>

\* A line that yields an entry, and the entry.
YieldsEntry(line) ==
  LET l == Trimmed(line) IN
    Begins(Lowercased(l), TextStep) /\ (Has(l, ":") \/ Has(l, "-"))

EntryOf(line) ==
  LET l == Trimmed(line) IN
    IF Has(l, ":") THEN Trimmed(AfterFirst(l, ":"))
    ELSE Trimmed(AfterFirst(l, "-"))

EntryLines == {k \in DOMAIN LinesOf(reply) : YieldsEntry(LinesOf(reply)[k])}
EntriesBefore(k) == Cardinality({j \in EntryLines : j < k})

\* The lines `STEP 3: Boil water` and `STEP 3 - Boil water` of reply.
BoilWaterLines ==
  {k \in DOMAIN LinesOf(reply) :
     Trimmed(LinesOf(reply)[k]) \in {TextStep3Colon, TextStep3Hyphen}}

(***************************************************************************)
(* C16, as stated.  In every step-list text a line `STEP 3: Boil water`    *)
(* yields steps[2] = "Boil water" (the third entry), a line                *)
(* `STEP 3 - Boil water` the same, and a bare line `STEP 3` no entry.      *)
(***************************************************************************)
C16_StepNumberIndexes ==
  StepsReturned =>
    /\ \A k \in BoilWaterLines : Len(steps) >= 3 /\ steps[3] = TextBoilWater
    /\ Len(steps) = Cardinality(EntryLines)

(***************************************************************************)
(* C16, amended.  In every step-list text a line `STEP 3: Boil water`      *)
(* yields the entry "Boil water", at the position that follows the entries *)
(* of the lines before it (steps[2] when exactly two earlier lines yielded *)
(* an entry: the number on the line is not read); a line                   *)
(* `STEP 3 - Boil water` yields the same; a bare line `STEP 3` yields no   *)
(* entry.                                                                  *)
(***************************************************************************)
C16_StepLineForms ==
  StepsReturned =>
    /\ \A k \in BoilWaterLines :
         /\ Len(steps) > EntriesBefore(k)
         /\ steps[EntriesBefore(k) + 1] = TextBoilWater
    /\ Len(steps) = Cardinality(EntryLines)

\* Two step lines and then `STEP 3: Boil water`: it is steps[2].
C16_Witness ==
  /\ StepsReturned
  /\ reply = <<"s", "t", "e", "p", " ", "1", ":", "a", "\n", " ", "S", "t", "e", "p", " ", "2", " ", "-", " ", "b", ":", " ", "c", " ", "\n", "S", "T", "E", "P", " ", "3", ":", " ", "B", "o", "i", "l", " ", "w", "a", "t", "e", "r">>
  /\ Len(steps) = 3 /\ steps[3] = TextBoilWater

(***************************************************************************)
(* C17.  parse_steps returns, in order of appearance, exactly one entry    *)
(* per line whose trimmed lowercase form starts with "step" and that has a *)
(* colon or a hyphen: the trimmed text after the first colon if the line   *)
(* has a colon (also when a hyphen comes earlier), otherwise the trimmed   *)
(* text after the first hyphen.  Every other line contributes no entry.    *)
(***************************************************************************)
C17_OneEntryPerStepLine ==
  StepsReturned =>
    /\ Len(steps) = Cardinality(EntryLines)
    /\ \A k \in EntryLines :
         steps[EntriesBefore(k) + 1] = EntryOf(LinesOf(reply)[k])

\* A hyphen before the colon, a hyphen after it, and a line that is no step.
C17_Witness ==
  /\ StepsReturned
  /\ reply = <<" ", "S", "t", "e", "p", " ", "2", " ", "-", " ", "b", ":", " ", "c", " ", "\n", "1", ":", " ", "g", "\n", "S", "T", "E", "P", " ", "4", ":", " ", "d", " ", "-", " ", "e">>
  /\ steps = << <<"c">>, <<"d", " ", "-", " ", "e">> >>

(***************************************************************************)
(* C18.  In every parser a line that does not begin with a recognized      *)
(* prefix token sets no parsed field.  In parse_lang_and_options a line    *)
(* that does not start with LANG: never sets language_code and a line that *)
(* does not start with OPTIONS: never sets the question; in                *)
(* parse_dish_block a field no line begins with keeps its default; in      *)
(* parse_steps only lines that begin with "step" yield an entry.  (A line  *)
(* is taken without its surrounding whitespace.)                           *)
(***************************************************************************)
C18_OtherLinesIgnored ==
  /\ LangReturned =>
       /\ LinesBeginning(reply, TextLANG) = {} => lang_code = TextEn
       /\ LinesBeginning(reply, TextOPTIONS) = {} => ai_question = reply
  /\ DishReturned =>
       \A f \in 1..5 :
         LinesBeginning(reply, DishFields[f].prefix) = {} =>
           DishFields[f].value = DishFields[f].default
  /\ StepsReturned =>
       Len(steps) <=
         Cardinality({k \in DOMAIN LinesOf(reply) :
                        Begins(Lowercased(Trimmed(LinesOf(reply)[k])), TextStep)})

(***************************************************************************)
(* C19.  parse_lang_and_options, parse_dish_block and parse_steps never    *)
(* raise, whatever the text (empty, with no recognized line, with a prefix *)
(* and nothing after the delimiter): each returns a value of its full      *)
(* shape, with the defaults for what is absent.                            *)
(***************************************************************************)
C19_ParsersNeverRaise ==
  (unit \in ParserUnits /\ resolved # "pending") =>
    /\ resolved = "returned"
    /\ unit = "parse_lang_and_options" =>
         /\ lang_code \in Seq(STRING) /\ ai_question \in Seq(STRING)
         /\ reply = << >> => (lang_code = TextEn /\ ai_question = << >>)
    /\ unit = "parse_dish_block" =>
         /\ \A f \in 1..5 : DishFields[f].value \in Seq(STRING)
         /\ reply = << >> =>
              \A f \in 1..5 : DishFields[f].value = DishFields[f].default
    /\ unit = "parse_steps" =>
         /\ steps \in Seq(Seq(STRING))
         /\ reply = << >> => steps = << >>

\* A LANG: line with nothing after the colon, and a line with no colon at
\* all: parsed, to an empty language code.
C19_Witness ==
  /\ LangReturned
  /\ reply = <<"D", "a", "l", "?", "\n", "L", "A", "N", "G", ":">>
  /\ lang_code = << >> /\ ai_question = reply

(***************************************************************************)
(* C20.  A failure of the language-model capability (unavailable, quota    *)
(* exhausted) at any stage ends the session at that stage with a message   *)
(* the user sees: no later stage runs, nothing further is spoken, and the  *)
(* step loop is not entered or continued on the strength of a failed call. *)
(***************************************************************************)
C20_FailureEndsSession ==
  (last_call.call = "chat" /\ last_call.status \in {"error", "quota", "raise"}) =>
    /\ pc = "exit" /\ outcome \in {"QUOTA", "CRASHED"}
    /\ trace[Len(trace)].kind = "print"

(***************************************************************************)
(* C21.  A failure of Speak (synthesis or playback), at any point, never   *)
(* aborts the session: the utterance is skipped, the failure is logged,    *)
(* and the dialogue goes on with the next stage or the next command.       *)
(***************************************************************************)
C21_SpeakFailureSkipped ==
  (last_call.call = "speak"
     /\ last_call.status \in {"playback_error", "raise"}) =>
    (pc # "exit" /\ outcome = "RUNNING")

(***************************************************************************)
(* C22.  A failure of image generation (a non-200 status, a network or     *)
(* file error, the image not opening) never aborts the session:            *)
(* generate_image returns normally and the availability prompt is spoken   *)
(* next.                                                                   *)
(***************************************************************************)
C22_ImageFailureHarmless ==
  /\ last_call.call = "generate_image" =>
       /\ last_call.status \in {"saved", "failed"}
       /\ pc = "speak_availability" /\ outcome = "RUNNING"
       /\ trace[Len(trace)].kind = "image"
  /\ \A k \in 1..(Len(trace) - 1) :
       trace[k].kind = "image" =>
         (trace[k + 1].kind = "speak" /\ trace[k + 1].what = "availability")

\* The image could not be generated, and the availability prompt is about
\* to be spoken.
C22_Witness ==
  /\ last_call = [call |-> "generate_image", status |-> "failed"]
  /\ pc = "speak_availability" /\ outcome = "RUNNING"

(***************************************************************************)
(* C23.  A failed or empty transcription is never fatal and not            *)
(* special-cased (new.py, which transcribes; recipe_generator.py uploads   *)
(* the recording instead): transcribe_audio returns "", main() builds and  *)
(* sends the stage request with that "" in it exactly as with a transcript,*)
(* and the stages go on in the usual order.                                *)
(***************************************************************************)
RequestFor(what) ==
  IF what = "ingredients" THEN "prompt_1"
  ELSE IF what = "choice" THEN "prompt_2"
  ELSE IF what = "availability" THEN "prompt_3"
  ELSE "prompt_cmd"

\* The request of the stage about to be sent, for a transcript h.
StageRequest(h) ==
  IF pc = "complete_1"
    THEN [NoPrompt EXCEPT !.template = "prompt_1", !.heard = {h}]
  ELSE IF pc = "complete_2"
    THEN [NoPrompt EXCEPT !.template = "prompt_2", !.lang = {lang_code},
                          !.question = {ai_question}, !.heard = {h}]
  ELSE [NoPrompt EXCEPT !.template = "prompt_3", !.lang = {lang_code},
                        !.dish = {dish_name},
                        !.ingredients = {ingredients_text},
                        !.recipe = {base_recipe_text}, !.heard = {h}]

C23_EmptyTranscriptTolerated ==
  impl = "openai" =>
    \* whatever was heard, the request of the stage is what is called next
    /\ \A k \in 1..(Len(trace) - 1) :
         trace[k].kind = "capture" =>
           /\ trace[k + 1].kind = "complete"
           /\ trace[k + 1].what = RequestFor(trace[k].what)
    /\ trace # << >> /\ trace[Len(trace)].kind = "capture" =>
         outcome = "RUNNING"
    \* and it is the same request but for the transcript in it
    /\ pc \in {"complete_1", "complete_2", "complete_3"} =>
         \E h \in {EmptyText, <<"r", "i", "c", "e">>} :
           request = StageRequest(h)
    /\ (pc = "dispatch" /\ request.heard = {EmptyText}) =>
         request = [NoPrompt EXCEPT !.template = "prompt_cmd",
                                    !.lang = {lang_code}, !.heard = {EmptyText}]

\* Nothing was heard of the availability reply, and the final recipe came.
C23_Witness ==
  /\ impl = "openai" /\ pc = "speak_final_recipe"
  /\ request.template = "prompt_3" /\ request.heard = {EmptyText}
  /\ final_recipe_text = <<"M", "i", "x", ".">>
  /\ dish_name = <<"D", "a", "l">>

(***************************************************************************)
(* C24.  In both orchestrators the stage-2 request carries the question    *)
(* produced in stage 1 (ai_question) and the language_code resolved in     *)
(* stage 1, and the stage-3 request carries the dish name, the ingredients *)
(* and the base recipe parsed in stage 2.                                  *)
(***************************************************************************)
C24_RequestsCarryContext ==
  /\ request.template = "prompt_2" =>
       (request.question = {ai_question} /\ request.lang = {lang_code})
  /\ request.template = "prompt_3" =>
       /\ request.dish = {dish_name}
       /\ request.ingredients = {ingredients_text}
       /\ request.recipe = {base_recipe_text}

(***************************************************************************)
(* The step loop has been entered; it has ended.                           *)
(***************************************************************************)
LoopEntered == pc = "loop_test" /\ step_index = 0 /\ Commands = << >>
LoopEnded == pc = "exit"
CountOf(c) == Len(SelectSeq(Commands, LAMBDA e : e.what = c))

(***************************************************************************)
(* C25, as stated.  Once entered with N >= 1 steps the step loop           *)
(* eventually reaches FINISHED or STOPPED, provided that at every step a   *)
(* command other than REPEAT is eventually issued.                         *)
(***************************************************************************)
C25_ReachesFinishedOrStopped ==
  (LoopEntered /\ Len(steps) >= 1) ~> (outcome \in {"FINISHED", "STOPPED"})

(***************************************************************************)
(* C25, amended.  Once entered with N >= 1 steps the step loop eventually  *)
(* ends, provided that at every step a command other than REPEAT is        *)
(* eventually issued: in FINISHED or STOPPED, or with the session aborted  *)
(* when a capability call raises.  It reaches FINISHED after exactly N     *)
(* NEXT commands and no STOP; every command other than REPEAT advances the *)
(* cursor or ends the loop, so that only an unbounded run of REPEAT on one *)
(* step keeps it from ending.                                              *)
(***************************************************************************)
C25_LoopTerminates ==
  /\ (LoopEntered /\ Len(steps) >= 1) ~> LoopEnded
  /\ [](Commands # << >> =>
          /\ LoopEnded => outcome \in {"FINISHED", "STOPPED", "CRASHED"}
          /\ outcome = "FINISHED" =>
               (CountOf("NEXT") = Len(steps) /\ CountOf("STOP") = 0)
          /\ CountOf("NEXT") + CountOf("STOP") <= Len(steps)
          /\ CountOf("NEXT") = step_index
               \/ (pc = "dispatch" /\ LastCommand.what = "NEXT"
                     /\ CountOf("NEXT") = step_index + 1))

\* Three steps, two REPEATs on the way, three NEXTs: FINISHED.
C25_Witness ==
  /\ outcome = "FINISHED" /\ Len(steps) = 3
  /\ CountOf("NEXT") = 3 /\ CountOf("REPEAT") = 2

(***************************************************************************)
(* What a run was fed and what it let be observed.  Fed: the replies of    *)
(* the provider to the stage prompts, in order.  Observable: the Speak     *)
(* calls with text and language, the image-generation call, the step       *)
(* announcements.  Expected: the observable events that the protocol       *)
(* prescribes for replies f and commands cmds, said without reference to   *)
(* the orchestrator that runs.                                             *)
(***************************************************************************)
IsStageReply(e) == e.kind = "complete" /\ e.what # "prompt_cmd" /\ e.text # {}
IsObservable(e) == e.kind \in {"speak", "image"}
Fed ==
  LET got == SelectSeq(trace, IsStageReply) IN
    [j \in DOMAIN got |-> CHOOSE t \in got[j].text : TRUE]
Observable == SelectSeq(trace, IsObservable)

\* The cursor after the first k commands: one step further per NEXT.
CursorAfter(cmds, k) == Cardinality({j \in 1..k : cmds[j] = "NEXT"})
\* The step is announced once on entry and once more after each command
\* that neither stops the loop nor moves past the last step.
AnnouncedAfter(st, cmds) ==
  {k \in 0..Len(cmds) :
     /\ CursorAfter(cmds, k) < Len(st)
     /\ \A j \in 1..k : cmds[j] # "STOP"}
ExpectedAnnouncements(st, cmds, lang) ==
  [j \in 1..Cardinality(AnnouncedAfter(st, cmds)) |->
     LET i == CursorAfter(cmds, j - 1) IN
       Spoke("step", step_announcement(i, st[i + 1]), lang, i)]

Expected(f, cmds) ==
  LET n == Len(f)
      r1 == parse_lang_and_options(strip(f[1]))
      r2 == parse_dish_block(strip(f[2]))
      lang == r1.lang_code
  IN (IF n >= 1 THEN <<Spoke("question", r1.ai_question, lang, 0)>>
                ELSE << >>)
     \o (IF n >= 2
           THEN <<Ev("image", "generate", {},
                     {image_request(r2.image_prompt)}, 0),
                  Spoke("availability",
                        r2.dish_name \o <<".", " ">> \o r2.ingredients_text
                          \o <<".", " ">> \o r2.question_text, lang, 0)>>
           ELSE << >>)
     \o (IF n >= 3 THEN <<Spoke("final_recipe", strip(f[3]), lang, 0)>>
                   ELSE << >>)
     \o (IF n >= 5
           THEN <<Spoke("intro", strip(f[5]), lang, 0)>>
                \o ExpectedAnnouncements(parse_steps(strip(f[4])), cmds, lang)
           ELSE << >>)

ExpectedOutcome(f, cmds) ==
  LET n == Len(f)
      st == parse_steps(strip(f[4]))
  IN IF n >= 4 /\ st = << >> THEN "NO_STEPS"
     ELSE IF n >= 5 /\ \E j \in DOMAIN cmds : cmds[j] = "STOP" THEN "STOPPED"
     ELSE IF n >= 5 /\ CursorAfter(cmds, Len(cmds)) >= Len(st) THEN "FINISHED"
     ELSE "RUNNING"

\* main() waits for the user or the provider, or has returned.
AtRest ==
  \/ pc \in {"capture_ingredients", "complete_1", "capture_choice",
             "complete_2", "capture_availability", "complete_3",
             "complete_4", "complete_intro", "get_command"}
  \/ outcome \in {"NO_STEPS", "FINISHED", "STOPPED"}

(***************************************************************************)
(* C26.  The two orchestrators follow one protocol: the observable events  *)
(* of a run (Speak calls with text and language, the image-generation      *)
(* call, step announcements, terminal outcome) are those that the replies  *)
(* fed and the commands interpreted prescribe, whichever orchestrator      *)
(* runs: never anything else, and all of them whenever main() waits for    *)
(* input or has returned.                                                  *)
(***************************************************************************)
C26_SameObservableEvents ==
  /\ IsPrefix(Observable, Expected(Fed, CommandNames))
  /\ AtRest =>
       /\ Observable = Expected(Fed, CommandNames)
       /\ outcome \in {"RUNNING", ExpectedOutcome(Fed, CommandNames)}
       /\ pc = "exit" => outcome = ExpectedOutcome(Fed, CommandNames)

\* A run of recipe_generator.py fed a reply that needs stripping, through
\* to the last of its steps by NEXT, REPEAT, NEXT, NEXT.
C26_Witness ==
  /\ impl = "gemini" /\ outcome = "FINISHED"
  /\ Len(Fed) = 5 /\ Fed[1] = <<" ">>
  /\ CommandNames = <<"NEXT", "REPEAT", "NEXT", "NEXT">>
  /\ Len(Observable) = 9

(***************************************************************************)
(* Reading a restaurant search.  A place can be used when its JSON holds   *)
(* geometry.location with both coordinates; the places are taken in the    *)
(* order of the pages and, on a page, of its listing.                      *)
(***************************************************************************)
LastPage == pages[Len(pages)].data
HasLocation(place) == place.shape = "ok"
ListedOn(n) == pages[n].data.results
UsableUpTo(m) ==
  UNION {{<<n, k>> : k \in {j \in DOMAIN ListedOn(n) :
                              HasLocation(ListedOn(n)[j])}} : n \in 1..m}
Usable == UsableUpTo(Len(pages))
ListedBefore(p, q) == p[1] < q[1] \/ (p[1] = q[1] /\ p[2] <= q[2])
RankOf(p) == Cardinality({q \in Usable : ListedBefore(q, p)})
FirstUsable(m) ==
  [j \in 1..(IF Cardinality(Usable) < m THEN Cardinality(Usable) ELSE m) |->
     [place_id |-> CHOOSE p \in Usable : RankOf(p) = j]]
EndedByStatus == pages # << >> /\ LastPage.status # "OK"

(***************************************************************************)
(* C27.  For any sequence of page responses                                *)
(* get_nearby_restaurants_from_google never collects or returns more than  *)
(* max_results restaurants; it requests a further page only after an OK    *)
(* page that carried a next_page_token, with that token, and while fewer   *)
(* than max_results restaurants are collected; and when the pagination     *)
(* ends through a missing token or the cap it returns the places that hold *)
(* geometry.location with its coordinates, in the order the pages listed   *)
(* them, up to max_results, skipping no other place.                       *)
(***************************************************************************)
C27_PagesInOrderUpToCap ==
  /\ Len(restaurants) <= max_results /\ Len(places) <= max_results
  /\ \A n \in 2..Len(pages) :
       /\ pages[n - 1].data.status = "OK"
       /\ pages[n - 1].data.next_page_token # {}
       /\ pages[n].pagetoken = pages[n - 1].data.next_page_token
       /\ Cardinality(UsableUpTo(n - 1)) < max_results
  /\ pages # << >> => (pages[1].pagetoken = {} /\ max_results > 0)
  /\ (places_pc = "returned" /\ ~EndedByStatus) =>
       /\ places = FirstUsable(max_results)
       /\ pages # << >> =>
            (LastPage.next_page_token = {} \/ Len(places) = max_results)

\* Two pages, the cap reached in the middle of the second: a place without
\* location skipped on the first, one without lat on the second, and a
\* usable place of the second page left out.
C27_Witness ==
  /\ places_pc = "returned" /\ Len(pages) = 2 /\ max_results = 3
  /\ Len(places) = 3 /\ Cardinality(Usable) = 5
  /\ places[3].place_id = <<2, 2>>

(***************************************************************************)
(* C28.  A non-OK status on any page, not only the first, discards what    *)
(* the earlier pages gave: on ZERO_RESULTS the function returns the empty  *)
(* list, which its caller answers with "No restaurants found"; on any      *)
(* other non-OK status it raises RuntimeError and returns nothing; no page *)
(* is requested after a non-OK one; a non-empty list is returned only when *)
(* the pagination ended through a missing next_page_token or the           *)
(* max_results cap.                                                        *)
(***************************************************************************)
C28_NonOkStatusDiscards ==
  /\ \A n \in 1..(Len(pages) - 1) : pages[n].data.status = "OK"
  /\ (pages # << >> /\ LastPage.status = "ZERO_RESULTS") =>
       /\ places_pc = "returned" /\ places = << >>
       /\ recommendation \in {"none", "no_restaurants_found"}
  /\ (pages # << >> /\ LastPage.status \notin {"OK", "ZERO_RESULTS"}) =>
       /\ places_pc = "raised" /\ places = << >>
       /\ recommendation \in {"none", "RuntimeError"}
  /\ places # << >> =>
       /\ places_pc = "returned" /\ LastPage.status = "OK"
       /\ LastPage.next_page_token = {} \/ Len(places) = max_results
       /\ places = restaurants

\* ZERO_RESULTS on the second page, after the first gave two restaurants.
C28_Witness ==
  /\ Len(pages) = 2 /\ LastPage.status = "ZERO_RESULTS"
  /\ Len(restaurants) = 2 /\ places = << >>
  /\ recommendation = "no_restaurants_found"

=============================================================================
